---------------------------- MODULE Spec2Model ----------------------------
(***************************************************************************)
(* Keyframe timeline animation engine of the OpenMFD visualizer:           *)
(* keyframe store, curve evaluator, property interpolators, sampling       *)
(* (applyAtTime), live playback (tickPlayback) and animation export        *)
(* (handleAnimationExport).                                                *)
(*                                                                         *)
(* JavaScript numbers are modelled as exact rationals [n, d] (d > 0, in    *)
(* lowest terms); vectors are modelled along one axis; null/undefined is   *)
(* the record NULL, and a null index is NoIndex.                           *)
(***************************************************************************)
EXTENDS Integers, Sequences, FiniteSets, TLC

(***************************************************************************)
(* Exact rational arithmetic.                                              *)
(***************************************************************************)
Abs(i) == IF i < 0 THEN -i ELSE i

RECURSIVE Gcd(_, _)
Gcd(a, b) == IF b = 0 THEN a ELSE Gcd(b, a % b)

R(n, d) ==
    LET s == IF d < 0 THEN -1 ELSE 1
        g == Gcd(Abs(n), Abs(d))
    IN  [n |-> (s * n) \div g, d |-> (s * d) \div g]

Z(i) == [n |-> i, d |-> 1]

RAdd(a, b) ==
    LET g == Gcd(a.d, b.d)
    IN  R(a.n * (b.d \div g) + b.n * (a.d \div g), (a.d \div g) * b.d)
RNeg(a) == [n |-> -a.n, d |-> a.d]
RSub(a, b) == RAdd(a, RNeg(b))
RMul(a, b) ==
    LET g1 == Gcd(Abs(a.n), b.d)
        g2 == Gcd(Abs(b.n), a.d)
    IN  R((a.n \div g1) * (b.n \div g2), (a.d \div g2) * (b.d \div g1))
RDiv(a, b) == RMul(a, R(b.d, b.n))
RLt(a, b) ==
    LET g == Gcd(a.d, b.d)
    IN  a.n * (b.d \div g) < b.n * (a.d \div g)
RLe(a, b) == ~RLt(b, a)
RMax(a, b) == IF RLt(a, b) THEN b ELSE a
RMin(a, b) == IF RLt(b, a) THEN b ELSE a
RCeil(a) == -((-a.n) \div a.d)
RFloor(a) == a.n \div a.d
Lerp(a, b, t) == RAdd(a, RMul(RSub(b, a), t))

NULL == [null |-> TRUE]
NoIndex == -1


(***************************************************************************)
(* Curve Evaluator (keyframes module).                                     *)
(***************************************************************************)
Pt(xn, xd, yn, yd) == [x |-> R(xn, xd), y |-> R(yn, yd)]

IsNumber(v) == DOMAIN v = {"n", "d"}

TransitionKeys == {"camera", "lights", "models"}

NoTransitions == [k \in TransitionKeys |-> NULL]

\* A stored entry is missing (NULL), a bare string [text |-> kind], or an
\* object [type, curve] whose type may be empty and whose curve may be NULL.
getTransitionEntry(frame, key) ==
    LET entry == IF frame = NULL THEN NULL ELSE frame.transitions[key]
    IN  IF entry = NULL THEN [type |-> "linear", curve |-> NULL]
        ELSE IF DOMAIN entry = {"text"} THEN [type |-> entry.text, curve |-> NULL]
        ELSE [type |-> IF entry.type = "" THEN "linear" ELSE entry.type,
              curve |-> entry.curve]

getPresetCurve(type) ==
    CASE type = "start" ->
           [points |-> << Pt(0, 1, 0, 1), Pt(1, 4, 9, 10), Pt(1, 2, 1, 1),
                          Pt(3, 4, 1, 1), Pt(1, 1, 1, 1) >>]
      [] type = "end" ->
           [points |-> << Pt(0, 1, 0, 1), Pt(1, 4, 0, 1), Pt(1, 2, 0, 1),
                          Pt(3, 4, 1, 10), Pt(1, 1, 1, 1) >>]
      [] type = "s-curve" ->
           [points |-> << Pt(0, 1, 0, 1), Pt(1, 4, 1, 10), Pt(1, 2, 1, 2),
                          Pt(3, 4, 9, 10), Pt(1, 1, 1, 1) >>]
      [] type = "middle" ->
           [points |-> << Pt(0, 1, 0, 1), Pt(1, 4, 1, 10), Pt(1, 2, 3, 5),
                          Pt(3, 4, 9, 10), Pt(1, 1, 1, 1) >>]
      [] OTHER ->
           [points |-> << Pt(0, 1, 0, 1), Pt(1, 4, 1, 4), Pt(1, 2, 1, 2),
                          Pt(3, 4, 3, 4), Pt(1, 1, 1, 1) >>]

clamp01(value) == RMax(Z(0), RMin(Z(1), value))

catmullRom(p0, p1, p2, p3, t) ==
    LET t2 == RMul(t, t)
        t3 == RMul(t2, t)
        c1 == RMul(RSub(p2, p0), t)
        c2 == RMul(RSub(RAdd(RSub(RMul(Z(2), p0), RMul(Z(5), p1)),
                             RMul(Z(4), p2)), p3), t2)
        c3 == RMul(RAdd(RSub(RAdd(RSub(Z(0), p0), RMul(Z(3), p1)),
                             RMul(Z(3), p2)), p3), t3)
    IN  RMul(R(1, 2), RAdd(RAdd(RAdd(RMul(Z(2), p1), c1), c2), c3))

\* The point the inner loop of smoothCurvePoints pushes at 1/4 (q) or at 3/4
\* (r) of the segment from p0 to p1.
Subdivide(p0, p1, isQ) ==
    IF isQ THEN [x |-> RAdd(RMul(R(3, 4), p0.x), RMul(R(1, 4), p1.x)),
                 y |-> RAdd(RMul(R(3, 4), p0.y), RMul(R(1, 4), p1.y))]
    ELSE [x |-> RAdd(RMul(R(1, 4), p0.x), RMul(R(3, 4), p1.x)),
          y |-> RAdd(RMul(R(1, 4), p0.y), RMul(R(3, 4), p1.y))]

\* One corner-subdivision round: the first point, q and r of every segment,
\* the last point.
SmoothRound(current) ==
    << current[1] >>
    \o [k \in 1..(2 * (Len(current) - 1)) |->
          Subdivide(current[(k + 1) \div 2], current[(k + 1) \div 2 + 1], k % 2 = 1)]
    \o << current[Len(current)] >>

RECURSIVE smoothCurvePoints(_, _)
smoothCurvePoints(points, iterations) ==
    IF Len(points) < 2 \/ iterations = 0 THEN points
    ELSE smoothCurvePoints(SmoothRound(points), iterations - 1)

\* The normalised point idx of a curve: a bare number is a y value at the
\* preset's x.
NormalizePoint(p, fallbackPoint) ==
    IF IsNumber(p) THEN [x |-> fallbackPoint.x, y |-> clamp01(p)]
    ELSE [x |-> IF p.x # NULL THEN clamp01(p.x) ELSE fallbackPoint.x,
          y |-> IF p.y # NULL THEN clamp01(p.y) ELSE fallbackPoint.y]

\* A pinning of the end points only.
PinCurveEnds(n0, n1, n2, n3, n4) ==
    << [x |-> Z(0), y |-> n0.y], n1, n2, n3, [x |-> Z(1), y |-> n4.y] >>

\* The five normalised points with the x values pinned.
PinCurvePoints(n0, n1, n2, n3, n4) ==
    << [x |-> Z(0), y |-> n0.y],
       [x |-> RMin(n1.x, R(1, 2)), y |-> n1.y],
       [x |-> R(1, 2), y |-> n2.y],
       [x |-> RMax(n3.x, R(1, 2)), y |-> n3.y],
       [x |-> Z(1), y |-> n4.y] >>

NormalizeWith(points, fallback) ==
    PinCurvePoints(NormalizePoint(points[1], fallback[1]),
                   NormalizePoint(points[2], fallback[2]),
                   NormalizePoint(points[3], fallback[3]),
                   NormalizePoint(points[4], fallback[4]),
                   NormalizePoint(points[5], fallback[5]))

NormalizeOr(curve, fallback) ==
    IF curve = NULL \/ Len(curve.points) # 5 THEN fallback
    ELSE NormalizeWith(curve.points, fallback)

normalizeCurvePoints(curve, type) == NormalizeOr(curve, getPresetCurve(type).points)

SmoothIterations == 3

\* The loop of evaluateTransition: the first segment whose x-range holds
\* clampedT, segment 1 when none does.
FindSegment(smoothPoints, clampedT) ==
    LET hits == {i \in 1..(Len(smoothPoints) - 1) :
                   /\ RLe(smoothPoints[i].x, clampedT)
                   /\ RLe(clampedT, smoothPoints[i + 1].x)}
    IN  IF hits = {} THEN 1 ELSE CHOOSE i \in hits : \A j \in hits : i <= j

\* The Catmull-Rom value on segment idx, returned as it comes.
EvaluateSegmentUnclamped(smoothPoints, idx, clampedT) ==
    LET n == Len(smoothPoints)
        x0 == smoothPoints[idx].x
        x1 == smoothPoints[idx + 1].x
        localT == IF x1 = x0 THEN Z(0) ELSE RDiv(RSub(clampedT, x0), RSub(x1, x0))
        p0 == smoothPoints[IF idx - 1 < 1 THEN 1 ELSE idx - 1].y
        p1 == smoothPoints[idx].y
        p2 == smoothPoints[idx + 1].y
        p3 == smoothPoints[IF idx + 2 > n THEN n ELSE idx + 2].y
    IN  catmullRom(p0, p1, p2, p3, localT)

\* The Catmull-Rom value on segment idx of the smoothed curve.
EvaluateSegment(smoothPoints, idx, clampedT) ==
    LET n == Len(smoothPoints)
        x0 == smoothPoints[idx].x
        x1 == smoothPoints[idx + 1].x
        localT == IF x1 = x0 THEN Z(0) ELSE RDiv(RSub(clampedT, x0), RSub(x1, x0))
        p0 == smoothPoints[IF idx - 1 < 1 THEN 1 ELSE idx - 1].y
        p1 == smoothPoints[idx].y
        p2 == smoothPoints[idx + 1].y
        p3 == smoothPoints[IF idx + 2 > n THEN n ELSE idx + 2].y
    IN  clamp01(catmullRom(p0, p1, p2, p3, localT))

EvaluateCurve(smoothPoints, clampedT) ==
    EvaluateSegment(smoothPoints, FindSegment(smoothPoints, clampedT), clampedT)

\* An evaluator whose middle step comes after the middle.
evaluateTransitionLateMiddle(frame, key, t) ==
    LET entry == getTransitionEntry(frame, key)
    IN  CASE entry.type = "start" -> IF RLe(t, Z(0)) THEN Z(0) ELSE Z(1)
          [] entry.type = "middle" -> IF RLe(t, R(1, 2)) THEN Z(0) ELSE Z(1)
          [] entry.type = "end" -> IF RLt(t, Z(1)) THEN Z(0) ELSE Z(1)
          [] OTHER -> clamp01(t)

evaluateTransition(frame, key, t) ==
    LET entry == getTransitionEntry(frame, key)
    IN  CASE entry.type = "start" -> IF RLe(t, Z(0)) THEN Z(0) ELSE Z(1)
          [] entry.type = "middle" -> IF RLt(t, R(1, 2)) THEN Z(0) ELSE Z(1)
          [] entry.type = "end" -> IF RLt(t, Z(1)) THEN Z(0) ELSE Z(1)
          [] OTHER ->
            EvaluateCurve(
              smoothCurvePoints(
                normalizeCurvePoints(IF entry.curve # NULL THEN entry.curve
                                     ELSE getPresetCurve(entry.type), entry.type),
                SmoothIterations),
              clamp01(t))

(***************************************************************************)
(* Camera system: the live camera state and the Camera Blend.              *)
(* Positions and targets are coordinates along one axis.                   *)
(***************************************************************************)
Sign(v) == IF RLt(v, Z(0)) THEN Z(-1) ELSE IF RLt(Z(0), v) THEN Z(1) ELSE Z(0)

RAbs(v) == IF RLt(v, Z(0)) THEN RNeg(v) ELSE v

\* cameraSystem.applyExternalCameraState: a state without pos or target is
\* ignored; the field of view is written only in perspective mode.
applyExternalCameraState(cam, state) ==
    IF state = NULL \/ "pos" \notin DOMAIN state \/ "target" \notin DOMAIN state THEN cam
    ELSE [pos |-> state.pos, target |-> state.target, roll |-> state.roll,
          fov |-> IF state.mode = "perspective" THEN state.fov ELSE cam.fov,
          mode |-> state.mode]

interpolateCameraState(start, end, t) ==
    LET startDir == Sign(RSub(start.pos, start.target))
        endDir == Sign(RSub(end.pos, end.target))
        dir == Sign(Lerp(startDir, endDir, t))
        target == Lerp(start.target, end.target, t)
        startDist == RAbs(RSub(start.pos, start.target))
        endDist == RAbs(RSub(end.pos, end.target))
        dist == Lerp(startDist, endDist, t)
    IN  [pos |-> RAdd(target, RMul(dir, dist)),
         target |-> target,
         roll |-> Lerp(start.roll, end.roll, t),
         fov |-> Lerp(start.fov, end.fov, t),
         mode |-> end.mode]

(***************************************************************************)
(* Light system.  A colour is its hue/saturation/lightness triple; a grey  *)
(* (s = 0, or l = 0 or 1) has no hue, so THREE.Color reads it back as      *)
(* h = 0, s = 0.                                                           *)
(***************************************************************************)
Frac(h) == R(h.n % h.d, h.d)

Color(h, s, l) ==
    IF s = Z(0) \/ l = Z(0) \/ l = Z(1) THEN [h |-> Z(0), s |-> Z(0), l |-> l]
    ELSE [h |-> Frac(h), s |-> s, l |-> l]

White == Color(Z(0), Z(0), Z(1))

\* The two wrap-arounds of lerpHue's delta, and of its result.
WrapDelta(delta) ==
    IF RLt(R(1, 2), delta)
    THEN (IF RLt(RSub(delta, Z(1)), R(-1, 2)) THEN delta ELSE RSub(delta, Z(1)))
    ELSE (IF RLt(delta, R(-1, 2)) THEN RAdd(delta, Z(1)) ELSE delta)

WrapHue(next) ==
    IF RLt(next, Z(0))
    THEN (IF RLt(Z(1), RAdd(next, Z(1))) THEN next ELSE RAdd(next, Z(1)))
    ELSE (IF RLt(Z(1), next) THEN RSub(next, Z(1)) ELSE next)

\* A blend of hues that goes straight from a to b.
lerpHueStraight(a, b, t) == RAdd(a, RMul(RSub(b, a), t))

lerpHue(a, b, t) == WrapHue(RAdd(a, RMul(WrapDelta(RSub(b, a)), t)))

lerpColorHSL(startColor, endColor, t) ==
    Color(lerpHue(startColor.h, endColor.h, t),
          Lerp(startColor.s, endColor.s, t),
          Lerp(startColor.l, endColor.l, t))

\* THREE.SpotLight's default cone angle, Math.PI / 3, as a rational.
SpotDefaultAngle == R(21, 20)

\* new THREE.SpotLight(color, intensity) / new THREE.DirectionalLight(...)
NewLight(type, color, intensity) ==
    [type |-> type, color |-> color, intensity |-> intensity,
     offset |-> Z(0), targetOffset |-> Z(0),
     distance |-> IF type = "spot" THEN Z(0) ELSE NULL,
     angle |-> IF type = "spot" THEN SpotDefaultAngle ELSE NULL,
     penumbra |-> IF type = "spot" THEN Z(0) ELSE NULL,
     decay |-> IF type = "spot" THEN Z(2) ELSE NULL]

\* addDirectionalLight(options): the light object it pushes.
addDirectionalLight(o) ==
    LET base == NewLight(o.type, o.color, o.intensity)
        spot == o.type = "spot"
    IN  [base EXCEPT !.offset = o.offset, !.targetOffset = o.targetOffset,
                     !.distance = IF spot /\ o.distance # NULL THEN o.distance ELSE @,
                     !.angle = IF spot /\ o.angle # NULL THEN o.angle ELSE @,
                     !.penumbra = IF spot /\ o.penumbra # NULL THEN o.penumbra ELSE @,
                     !.decay = IF spot /\ o.decay # NULL THEN o.decay ELSE @]

DefaultLight ==
    addDirectionalLight([type |-> "directional", color |-> White, intensity |-> R(3, 2),
                         offset |-> Z(10), targetOffset |-> Z(0), distance |-> NULL,
                         angle |-> NULL, penumbra |-> NULL, decay |-> NULL])

\* Array.prototype.splice(index, 1)
SpliceOut(seq, index) ==
    IF index < 0 \/ index >= Len(seq) THEN seq
    ELSE SubSeq(seq, 1, index) \o SubSeq(seq, index + 2, Len(seq))

\* Array.prototype.splice(index, 0, item): an index past the end appends.
SpliceIn(seq, index, item) ==
    LET at == IF index > Len(seq) THEN Len(seq) ELSE index
    IN  SubSeq(seq, 1, at) \o <<item>> \o SubSeq(seq, at + 1, Len(seq))

removeDirectionalLight(lights, index) == SpliceOut(lights, index)

\* getLightState of a light system [ambient, lights].
getLightState(ls) ==
    [ambient |-> ls.ambient,
     directional |-> [i \in 1..Len(ls.lights) |->
        LET light == ls.lights[i]
            spot == light.type = "spot"
        IN  [type |-> light.type, color |-> light.color, intensity |-> light.intensity,
             offset |-> light.offset, targetOffset |-> light.targetOffset,
             distance |-> IF spot THEN light.distance ELSE NULL,
             angle |-> IF spot THEN light.angle ELSE NULL,
             penumbra |-> IF spot THEN light.penumbra ELSE NULL,
             decay |-> IF spot THEN light.decay ELSE NULL]]]

normalizeLightState(state) ==
    IF state = NULL THEN [ambient |-> [color |-> White, intensity |-> Z(1)], directional |-> <<>>]
    ELSE state

applyLightState(ls, state) ==
    IF state = NULL THEN ls
    ELSE [ambient |-> [color |-> state.ambient.color,
                       intensity |-> RMax(Z(0), state.ambient.intensity)],
          lights |-> IF Len(state.directional) = 0 THEN <<DefaultLight>>
                     ELSE [i \in 1..Len(state.directional) |->
                             addDirectionalLight(state.directional[i])]]

\* The new light of ensureDirectionalLightAt spliced into the list.
InsertLight(lights, index, type) ==
    [lights |-> SpliceIn(lights, index, NewLight(type, White, Z(1))),
     at |-> IF index > Len(lights) THEN Len(lights) ELSE index]

\* ensureDirectionalLightAt(index, type): the list afterwards and the place
\* (0-based) of the light object it returns.
ensureDirectionalLightAt(lights, index, type) ==
    IF index < Len(lights) /\ lights[index + 1].type = type
    THEN [lights |-> lights, at |-> index]
    ELSE InsertLight(IF index < Len(lights) THEN removeDirectionalLight(lights, index)
                     ELSE lights,
                     index, type)

OrElse(v, fallback) == IF v # NULL THEN v ELSE fallback

\* The fields applyLightStateInterpolated writes into the light of an index.
BlendFields(light, startEntry, endEntry, t, spot) ==
    [light EXCEPT
       !.color = lerpColorHSL(startEntry.color, endEntry.color, t),
       !.intensity = RMax(Z(0), Lerp(startEntry.intensity, endEntry.intensity, t)),
       !.offset = Lerp(startEntry.offset, endEntry.offset, t),
       !.targetOffset = Lerp(startEntry.targetOffset, endEntry.targetOffset, t),
       !.distance = IF spot THEN Lerp(OrElse(startEntry.distance, Z(0)),
                                      OrElse(endEntry.distance, Z(0)), t) ELSE @,
       !.angle = IF spot THEN Lerp(OrElse(startEntry.angle, light.angle),
                                   OrElse(endEntry.angle, light.angle), t) ELSE @,
       !.penumbra = IF spot THEN Lerp(OrElse(startEntry.penumbra, Z(0)),
                                      OrElse(endEntry.penumbra, Z(0)), t) ELSE @,
       !.decay = IF spot THEN Lerp(OrElse(startEntry.decay, Z(1)),
                                   OrElse(endEntry.decay, Z(1)), t) ELSE @]

\* The light ensureDirectionalLightAt returned, blended in place.
BlendEnsured(ens, startEntry, endEntry, t) ==
    [ens.lights EXCEPT ![ens.at + 1] =
       BlendFields(@, startEntry, endEntry, t, @.type = "spot")]

\* A light the end state does not have goes once the transition is over.
DropEnded(lights, i, e, t) ==
    IF e = NULL /\ RLe(Z(1), t) THEN removeDirectionalLight(lights, i) ELSE lights

BlendEntries(lights, i, startEntry, endEntry, e, t) ==
    DropEnded(BlendEnsured(ensureDirectionalLightAt(lights, i, endEntry.type),
                           startEntry, endEntry, t),
              i, e, t)

\* The body of applyLightStateInterpolated's loop for index i.
BlendLightAt(lights, i, s, e, t) ==
    BlendEntries(lights, i, OrElse(s, e), OrElse(e, s), e, t)

RECURSIVE BlendLights(_, _, _, _, _, _)
BlendLights(lights, i, maxCount, start, end, t) ==
    IF i >= maxCount THEN lights
    ELSE LET s == IF i < Len(start.directional) THEN start.directional[i + 1] ELSE NULL
             e == IF i < Len(end.directional) THEN end.directional[i + 1] ELSE NULL
         IN  BlendLights(BlendLightAt(lights, i, s, e, t), i + 1, maxCount, start, end, t)

Max(a, b) == IF a > b THEN a ELSE b
Min(a, b) == IF a < b THEN a ELSE b

\* The ambient light of a blend; hasStart and hasEnd tell which states were
\* given.
BlendAmbient(start, end, t, hasStart, hasEnd) ==
    IF ~hasStart /\ hasEnd
    THEN [color |-> end.color, intensity |-> RMax(Z(0), RMul(end.intensity, t))]
    ELSE IF hasStart /\ ~hasEnd
    THEN [color |-> start.color,
          intensity |-> RMax(Z(0), RMul(start.intensity, RSub(Z(1), t)))]
    ELSE [color |-> lerpColorHSL(start.color, end.color, t),
          intensity |-> RMax(Z(0), Lerp(start.intensity, end.intensity, t))]

BlendLightStates(ls, start, end, t, hasStart, hasEnd, maxCount) ==
    [ambient |-> BlendAmbient(start.ambient, end.ambient, t, hasStart, hasEnd),
     lights |-> BlendLights(SubSeq(ls.lights, 1, Min(Len(ls.lights), maxCount)),
                            0, maxCount, start, end, t)]

BlendNormalized(ls, start, end, t, hasStart, hasEnd) ==
    BlendLightStates(ls, start, end, t, hasStart, hasEnd,
                     Max(Len(start.directional), Len(end.directional)))

applyLightStateInterpolated(ls, startState, endState, t) ==
    BlendNormalized(ls, normalizeLightState(startState), normalizeLightState(endState), t,
                    startState # NULL, endState # NULL)


(***************************************************************************)
(* Program state.                                                          *)
(***************************************************************************)
VARIABLES
    keyframes,                          \* keyframe records; NULL marks an array hole
    activeKeyframeIndex,
    isEditing,
    editingIndex,
    prevCameraState,
    prevLightState,
    globalLightStateBeforeKeyframe,
    globalModelSelectionBeforeKeyframe,
    isPlaying,
    playbackRaf,                        \* the requestAnimationFrame handle: none/pending/fired
    playbackIndex,
    playbackSegment,
    suppressModelSelectionSave,
    storage,                            \* localStorage[KEYFRAME_STORAGE_KEY]
    camera,                             \* cameraSystem: the live camera
    lightSystem,                        \* lightSystem: [ambient, lights]
    allowStructureEdit,                 \* lightSystem: lights may be added and removed
    selection,                          \* modelSelector: checkboxes and version selects
    opacity,                            \* modelManager: opacity of each model's active scene
    visibilityOverrides,                \* modelManager: models with a visibility override
    evalLog,                            \* evaluateTransition calls of the last operation
    threw,                              \* the last handler ended in an uncaught exception
    rafPending,                         \* animation-frame callbacks requested and not yet run
    now,                                \* performance.now(), in ms
    playStartMs,                        \* clock value when playback last started
    export,                             \* handleAnimationExport: its locals and position
    lastCall,                           \* the handler that ran last
    opsLeft                             \* handlers the explored session may still run

storeVars ==
    << keyframes, activeKeyframeIndex, isEditing, editingIndex, prevCameraState,
       prevLightState, globalLightStateBeforeKeyframe, globalModelSelectionBeforeKeyframe,
       isPlaying, playbackRaf, playbackIndex, playbackSegment, suppressModelSelectionSave,
       storage, camera, lightSystem, allowStructureEdit, selection, opacity,
       visibilityOverrides, evalLog, threw, rafPending >>

vars == << storeVars, now, playStartMs, export, lastCall, opsLeft >>

\* The keyframe system's state together with the systems it drives, as one
\* record, so that a handler's calls compose.
State ==
    [keyframes |-> keyframes, activeKeyframeIndex |-> activeKeyframeIndex,
     isEditing |-> isEditing, editingIndex |-> editingIndex,
     prevCameraState |-> prevCameraState, prevLightState |-> prevLightState,
     globalLightStateBeforeKeyframe |-> globalLightStateBeforeKeyframe,
     globalModelSelectionBeforeKeyframe |-> globalModelSelectionBeforeKeyframe,
     isPlaying |-> isPlaying, playbackRaf |-> playbackRaf,
     playbackIndex |-> playbackIndex, playbackSegment |-> playbackSegment,
     suppressModelSelectionSave |-> suppressModelSelectionSave,
     storage |-> storage, camera |-> camera, lightSystem |-> lightSystem,
     allowStructureEdit |-> allowStructureEdit,
     selection |-> selection, opacity |-> opacity,
     visibilityOverrides |-> visibilityOverrides, evalLog |-> evalLog, threw |-> threw,
     rafPending |-> rafPending]

Commit(s) ==
    /\ keyframes' = s.keyframes
    /\ activeKeyframeIndex' = s.activeKeyframeIndex
    /\ isEditing' = s.isEditing
    /\ editingIndex' = s.editingIndex
    /\ prevCameraState' = s.prevCameraState
    /\ prevLightState' = s.prevLightState
    /\ globalLightStateBeforeKeyframe' = s.globalLightStateBeforeKeyframe
    /\ globalModelSelectionBeforeKeyframe' = s.globalModelSelectionBeforeKeyframe
    /\ isPlaying' = s.isPlaying
    /\ playbackRaf' = s.playbackRaf
    /\ playbackIndex' = s.playbackIndex
    /\ playbackSegment' = s.playbackSegment
    /\ suppressModelSelectionSave' = s.suppressModelSelectionSave
    /\ storage' = s.storage
    /\ camera' = s.camera
    /\ lightSystem' = s.lightSystem
    /\ allowStructureEdit' = s.allowStructureEdit
    /\ selection' = s.selection
    /\ opacity' = s.opacity
    /\ visibilityOverrides' = s.visibilityOverrides
    /\ evalLog' = s.evalLog
    /\ threw' = s.threw
    /\ rafPending' = s.rafPending

\* The same, for the initial state.
Install(s) ==
    /\ keyframes = s.keyframes
    /\ activeKeyframeIndex = s.activeKeyframeIndex
    /\ isEditing = s.isEditing
    /\ editingIndex = s.editingIndex
    /\ prevCameraState = s.prevCameraState
    /\ prevLightState = s.prevLightState
    /\ globalLightStateBeforeKeyframe = s.globalLightStateBeforeKeyframe
    /\ globalModelSelectionBeforeKeyframe = s.globalModelSelectionBeforeKeyframe
    /\ isPlaying = s.isPlaying
    /\ playbackRaf = s.playbackRaf
    /\ playbackIndex = s.playbackIndex
    /\ playbackSegment = s.playbackSegment
    /\ suppressModelSelectionSave = s.suppressModelSelectionSave
    /\ storage = s.storage
    /\ camera = s.camera
    /\ lightSystem = s.lightSystem
    /\ allowStructureEdit = s.allowStructureEdit
    /\ selection = s.selection
    /\ opacity = s.opacity
    /\ visibilityOverrides = s.visibilityOverrides
    /\ evalLog = s.evalLog
    /\ threw = s.threw
    /\ rafPending = s.rafPending

(***************************************************************************)
(* Keyframe Store.                                                         *)
(***************************************************************************)
DEFAULT_HOLD_DURATION == 1
DEFAULT_TRANSITION_DURATION == 1

\* keyframes[index]: undefined outside the array and in a hole.
ArrayGet(arr, index) ==
    IF index >= 0 /\ index < Len(arr) THEN arr[index + 1] ELSE NULL

\* keyframes[index] = value: writing past the end lengthens the array, leaving holes.
ArraySet(arr, index, value) ==
    IF index < Len(arr) THEN [arr EXCEPT ![index + 1] = value]
    ELSE arr \o [k \in 1..(index - Len(arr)) |-> NULL] \o <<value>>

\* raw[name], undefined (and so falsy) when the object has no such property.
Field(raw, name) == IF name \in DOMAIN raw THEN raw[name] ELSE NULL

IsCameraRecord(raw) == Field(raw, "pos") # NULL /\ Field(raw, "target") # NULL

DefaultFrame(s) ==
    [camera |-> s.camera, lights |-> NULL, models |-> NULL,
     holdDuration |-> Z(DEFAULT_HOLD_DURATION),
     transitionDuration |-> Z(DEFAULT_TRANSITION_DURATION),
     transitions |-> NoTransitions]

normalizeKeyframe(s, raw) ==
    IF raw = NULL THEN DefaultFrame(s)
    ELSE IF Field(raw, "camera") # NULL \/ Field(raw, "lights") # NULL
    THEN [camera |-> IF Field(raw, "camera") # NULL THEN raw.camera ELSE raw,
          lights |-> Field(raw, "lights"),
          models |-> Field(raw, "models"),
          holdDuration |-> OrElse(Field(raw, "holdDuration"), Z(DEFAULT_HOLD_DURATION)),
          transitionDuration |->
             OrElse(Field(raw, "transitionDuration"), Z(DEFAULT_TRANSITION_DURATION)),
          transitions |-> OrElse(Field(raw, "transitions"), NoTransitions)]
    ELSE IF IsCameraRecord(raw) THEN [DefaultFrame(s) EXCEPT !.camera = raw]
    ELSE DefaultFrame(s)

\* JSON.stringify({ keyframes, activeIndex }): a hole is written as null.
saveKeyframes(s) ==
    [s EXCEPT !.storage = [keyframes |-> s.keyframes, activeIndex |-> s.activeKeyframeIndex]]

\* forEach skips the holes of the array.
enforceKeyframeDurations(s) ==
    [s EXCEPT !.keyframes =
       [k \in 1..Len(s.keyframes) |->
          IF s.keyframes[k] = NULL THEN NULL
          ELSE LET normalized == normalizeKeyframe(s, s.keyframes[k])
               IN  [normalized EXCEPT
                      !.holdDuration = RMax(Z(0), normalized.holdDuration),
                      !.transitionDuration =
                         IF k - 1 >= Len(s.keyframes) - 1 THEN Z(0)
                         ELSE RMax(Z(0), normalized.transitionDuration)]]]

(***************************************************************************)
(* Model selector and model manager.                                       *)
(***************************************************************************)
ModelCount == 1
ModelIds == 0..(ModelCount - 1)
Versions == {"v0", "v1"}

getSelectionSnapshot(s) == s.selection

\* The selection-change callback the keyframe system registers in bindUI.
SelectionChangeCallback(s, snapshot) ==
    IF s.activeKeyframeIndex = NoIndex \/ s.suppressModelSelectionSave THEN s
    ELSE LET frame == normalizeKeyframe(s, ArrayGet(s.keyframes, s.activeKeyframeIndex))
         IN  saveKeyframes([s EXCEPT !.keyframes =
               ArraySet(s.keyframes, s.activeKeyframeIndex, [frame EXCEPT !.models = snapshot])])

\* modelSelector.applySelectionSnapshot: sets the checkboxes and version
\* selects; a version that changes makes the model manager switch the scene
\* (setModelVersion, which shows the new scene at opacity 1); then
\* updateVisibility reports the selection through the change callback.
applySelectionSnapshot(s, snapshot) ==
    IF snapshot = NULL THEN s
    ELSE LET s1 == [s EXCEPT
                      !.selection = snapshot,
                      !.opacity = [m \in ModelIds |->
                          IF snapshot.versions[m] # s.selection.versions[m] THEN Z(1)
                          ELSE s.opacity[m]]]
         IN  SelectionChangeCallback(s1, getSelectionSnapshot(s1))

setModelOpacity(s, idx, value) == [s EXCEPT !.opacity[idx] = clamp01(value)]

setVisibilityOverrides(s, overrides) == [s EXCEPT !.visibilityOverrides = overrides]

clearVisibilityOverrides(s) == [s EXCEPT !.visibilityOverrides = {}]

\* modelManager.getVisibility: an override wins over the checkbox.
getVisibility(s, idx) ==
    IF idx \in s.visibilityOverrides THEN TRUE ELSE s.selection.models[idx]


(***************************************************************************)
(* Keyframe system: selection, store operations, edit sessions.            *)
(***************************************************************************)
getCameraState(s) == s.camera

IsIndex(s, index) == index >= 0 /\ index < Len(s.keyframes)

\* isEqual(a, b): equality of the stable JSON texts.
getChangedItems(s, index) ==
    IF ~IsIndex(s, index) \/ index >= Len(s.keyframes) - 1 THEN {}
    ELSE LET current == normalizeKeyframe(s, ArrayGet(s.keyframes, index))
             next == normalizeKeyframe(s, ArrayGet(s.keyframes, index + 1))
         IN  {k \in TransitionKeys :
                \/ k = "camera" /\ current.camera # next.camera
                \/ k = "lights" /\ current.lights # next.lights
                \/ k = "models" /\ current.models # next.models}

\* renderTransitionMenu stores the normalized active frame when it lists items.
renderTransitionMenu(s) ==
    IF s.activeKeyframeIndex = NoIndex THEN s
    ELSE IF s.activeKeyframeIndex >= Len(s.keyframes) - 1 THEN s
    ELSE IF getChangedItems(s, s.activeKeyframeIndex) = {} THEN s
    ELSE [s EXCEPT !.keyframes = ArraySet(s.keyframes, s.activeKeyframeIndex,
            normalizeKeyframe(s, ArrayGet(s.keyframes, s.activeKeyframeIndex)))]

selectKeyframe(s, index, applyState) ==
    IF ~IsIndex(s, index) THEN s
    ELSE
      LET fresh == s.activeKeyframeIndex = NoIndex
          frame == normalizeKeyframe(s, ArrayGet(s.keyframes, index))
          s1 == [s EXCEPT
                   !.globalLightStateBeforeKeyframe =
                       IF fresh THEN getLightState(s.lightSystem) ELSE @,
                   !.globalModelSelectionBeforeKeyframe =
                       IF fresh THEN getSelectionSnapshot(s) ELSE @,
                   !.activeKeyframeIndex = index,
                   !.keyframes = ArraySet(s.keyframes, index, frame)]
          s2 == IF applyState
                THEN [s1 EXCEPT !.camera = applyExternalCameraState(@, frame.camera),
                                !.lightSystem = applyLightState(@, frame.lights)]
                ELSE s1
          s3 == IF applyState THEN applySelectionSnapshot(s2, frame.models) ELSE s2
      IN  saveKeyframes(renderTransitionMenu(s3))

\* selectKeyframe(index) called with any number: Number.isInteger comes first.
selectKeyframeNumber(s, index) ==
    IF index.d # 1 THEN s ELSE selectKeyframe(s, index.n, TRUE)

clearSelection(s) ==
    LET s1 == [s EXCEPT !.activeKeyframeIndex = NoIndex,
                        !.lightSystem = applyLightState(@, s.globalLightStateBeforeKeyframe),
                        !.globalLightStateBeforeKeyframe = NULL]
        s2 == applySelectionSnapshot(s1, s1.globalModelSelectionBeforeKeyframe)
    IN  saveKeyframes([s2 EXCEPT !.globalModelSelectionBeforeKeyframe = NULL])

\* An append that leaves the durations as they are pushed.
addKeyframeNoEnforce(s) ==
    LET frame == [camera |-> getCameraState(s),
                  lights |-> getLightState(s.lightSystem),
                  models |-> getSelectionSnapshot(s),
                  holdDuration |-> Z(DEFAULT_HOLD_DURATION),
                  transitionDuration |-> Z(DEFAULT_TRANSITION_DURATION),
                  transitions |-> NoTransitions]
        s1 == [s EXCEPT !.keyframes = Append(@, frame)]
    IN  saveKeyframes(selectKeyframe(s1, Len(s1.keyframes) - 1, TRUE))

addKeyframe(s) ==
    LET frame == [camera |-> getCameraState(s),
                  lights |-> getLightState(s.lightSystem),
                  models |-> getSelectionSnapshot(s),
                  holdDuration |-> Z(DEFAULT_HOLD_DURATION),
                  transitionDuration |-> Z(DEFAULT_TRANSITION_DURATION),
                  transitions |-> NoTransitions]
        s1 == enforceKeyframeDurations([s EXCEPT !.keyframes = Append(@, frame)])
    IN  saveKeyframes(selectKeyframe(s1, Len(s1.keyframes) - 1, TRUE))

\* An element that was assigned is no hole any more: where the exchange
\* stored undefined, enforceKeyframeDurations finds an element and replaces it
\* by normalizeKeyframe(undefined).
Assigned(s, value) == IF value = NULL THEN DefaultFrame(s) ELSE value

moveActiveKeyframe(s, direction) ==
    LET nextIndex == s.activeKeyframeIndex + direction
    IN  IF s.activeKeyframeIndex = NoIndex THEN s
        ELSE IF nextIndex < 0 \/ nextIndex >= Len(s.keyframes) THEN s
        ELSE LET temp == ArrayGet(s.keyframes, s.activeKeyframeIndex)
                 swapped == ArraySet(ArraySet(s.keyframes, s.activeKeyframeIndex,
                                              Assigned(s, ArrayGet(s.keyframes, nextIndex))),
                                     nextIndex, Assigned(s, temp))
                 s1 == enforceKeyframeDurations(
                         [s EXCEPT !.keyframes = swapped, !.activeKeyframeIndex = nextIndex])
             IN  saveKeyframes([s1 EXCEPT !.playbackIndex =
                                   IF s1.isPlaying THEN nextIndex ELSE @])

\* playbackRaf is "none" (null), or the handle of a callback that is still
\* "pending" or has already "fired"; cancelling a fired handle does nothing.
requestAnimationFrame(s) ==
    [s EXCEPT !.playbackRaf = "pending", !.rafPending = @ + 1]

\* The handle is forgotten and the requested frame is not cancelled.
forgetPlaybackRaf(s) ==
    IF s.playbackRaf = "none" THEN s ELSE [s EXCEPT !.playbackRaf = "none"]

clearPlaybackRaf(s) ==
    IF s.playbackRaf = "none" THEN s
    ELSE [s EXCEPT !.playbackRaf = "none",
                   !.rafPending = IF s.playbackRaf = "pending" THEN @ - 1 ELSE @]

\* A stop that leaves the requested animation frame alone.
stopPlaybackNoCancel(s) ==
    IF ~s.isPlaying THEN s
    ELSE [s EXCEPT !.isPlaying = FALSE, !.playbackSegment = NULL,
                   !.suppressModelSelectionSave = FALSE]

stopPlayback(s) ==
    IF ~s.isPlaying THEN s
    ELSE [clearPlaybackRaf([s EXCEPT !.isPlaying = FALSE, !.playbackSegment = NULL])
            EXCEPT !.suppressModelSelectionSave = FALSE]

\* A removal that leaves the active index where it was.
removeActiveKeyframeStale(s) ==
    IF s.activeKeyframeIndex = NoIndex THEN s
    ELSE IF ~IsIndex(s, s.activeKeyframeIndex) THEN s
    ELSE saveKeyframes(enforceKeyframeDurations(
           [s EXCEPT !.keyframes = SpliceOut(@, s.activeKeyframeIndex)]))

removeActiveKeyframe(s) ==
    IF s.activeKeyframeIndex = NoIndex THEN s
    ELSE IF ~IsIndex(s, s.activeKeyframeIndex) THEN s
    ELSE
      LET s1 == enforceKeyframeDurations(
                  [s EXCEPT !.keyframes = SpliceOut(@, s.activeKeyframeIndex)])
          s2 == IF Len(s1.keyframes) = 0 THEN stopPlayback(s1)
                ELSE IF s1.isPlaying /\ s1.playbackIndex >= Len(s1.keyframes)
                THEN [s1 EXCEPT !.playbackIndex = 0]
                ELSE s1
      IN  IF Len(s2.keyframes) = 0 THEN clearSelection(s2)
          ELSE saveKeyframes(selectKeyframe(
                 s2, Min(s2.activeKeyframeIndex, Len(s2.keyframes) - 1), TRUE))

\* The camera system's update button while a keyframe is active.
UpdateButtonHandler(s) ==
    IF s.activeKeyframeIndex = NoIndex THEN s
    ELSE LET frame == normalizeKeyframe(s, ArrayGet(s.keyframes, s.activeKeyframeIndex))
         IN  saveKeyframes([s EXCEPT !.keyframes = ArraySet(@, s.activeKeyframeIndex,
               [frame EXCEPT !.camera = getCameraState(s),
                             !.models = getSelectionSnapshot(s)])])

\* The change handler of a row's hold input; value is NULL when the text is
\* no finite number.
HoldInputChange(s, index, value) ==
    LET safeValue == IF value = NULL THEN Z(0) ELSE RMax(Z(0), value)
        frame == normalizeKeyframe(s, ArrayGet(s.keyframes, index))
    IN  saveKeyframes(enforceKeyframeDurations(
          [s EXCEPT !.keyframes = ArraySet(@, index, [frame EXCEPT !.holdDuration = safeValue])]))

TransitionInputChange(s, index, value) ==
    LET safeValue == IF value = NULL THEN Z(0) ELSE RMax(Z(0), value)
        frame == normalizeKeyframe(s, ArrayGet(s.keyframes, index))
    IN  saveKeyframes(enforceKeyframeDurations(
          [s EXCEPT !.keyframes = ArraySet(@, index,
                                           [frame EXCEPT !.transitionDuration = safeValue])]))

\* The change handler of a transition menu row's kind select.
TransitionSelectChange(s, key, type) ==
    LET updated == normalizeKeyframe(s, ArrayGet(s.keyframes, s.activeKeyframeIndex))
        s1 == [s EXCEPT !.keyframes = ArraySet(@, s.activeKeyframeIndex,
                 [updated EXCEPT !.transitions[key] =
                    [type |-> type, curve |-> getPresetCurve(type)]])]
    IN  renderTransitionMenu(saveKeyframes(s1))

\* pickMidIndex: the handle (0..2) whose x is nearest to px, the first of
\* them when two are equally near.
pickMidIndex(px, points) ==
    LET Dist(j) == RAbs(RSub(px, points[j + 2].x))
    IN  CHOOSE best \in 0..2 :
           \A j \in 0..2 :
              /\ RLe(Dist(best), Dist(j))
              /\ (j < best) => RLt(Dist(best), Dist(j))

\* The points a drag of handle midIndex to (cx, cy) leaves behind.
DraggedPoints(base, idx, cx, cy) ==
    [k \in 1..5 |->
       [x |-> IF k = 3 THEN R(1, 2)
              ELSE IF k = idx + 1 /\ idx = 1 THEN clamp01(RMin(cx, R(1, 2)))
              ELSE IF k = idx + 1 /\ idx = 3 THEN clamp01(RMax(cx, R(1, 2)))
              ELSE base[k].x,
        y |-> IF k = idx + 1 THEN clamp01(cy) ELSE base[k].y]]

\* A drag that moves the end points as well.
DraggedPointsLoose(base, idx, cx, cy) ==
    [k \in 1..5 |-> [x |-> base[k].x, y |-> clamp01(cy)]]

applyCurveChange(s, key, midIndex, cx, cy) ==
    LET updated == normalizeKeyframe(s, ArrayGet(s.keyframes, s.activeKeyframeIndex))
        currentEntry == getTransitionEntry(updated, key)
        base == normalizeCurvePoints(IF currentEntry.curve # NULL THEN currentEntry.curve
                                     ELSE getPresetCurve(currentEntry.type),
                                     currentEntry.type)
    IN  saveKeyframes(
          [s EXCEPT !.keyframes = ArraySet(@, s.activeKeyframeIndex,
             [updated EXCEPT !.transitions[key] =
                [type |-> currentEntry.type,
                 curve |-> [points |-> DraggedPoints(base, midIndex + 1, cx, cy)]]])])

\* onPointer: a pointer-down or pointer-move over the curve of row key, at
\* (px, py) in the unit square.
onPointer(s, key, px, py) ==
    LET currentFrame == normalizeKeyframe(s, ArrayGet(s.keyframes, s.activeKeyframeIndex))
        currentEntry == getTransitionEntry(currentFrame, key)
        points == normalizeCurvePoints(IF currentEntry.curve # NULL THEN currentEntry.curve
                                       ELSE getPresetCurve(currentEntry.type),
                                       currentEntry.type)
    IN  applyCurveChange(s, key, pickMidIndex(clamp01(px), points), clamp01(px), clamp01(py))

openEditor(s, index) ==
    IF ~IsIndex(s, index) THEN s
    ELSE
      LET normalized == normalizeKeyframe(s, ArrayGet(s.keyframes, index))
          frame == [normalized EXCEPT
                      !.lights = IF @ = NULL THEN getLightState(s.lightSystem) ELSE @,
                      !.models = IF @ = NULL THEN getSelectionSnapshot(s) ELSE @]
          s1 == [s EXCEPT !.keyframes = ArraySet(@, index, frame),
                          !.isEditing = TRUE,
                          !.editingIndex = index,
                          !.prevCameraState = getCameraState(s),
                          !.prevLightState = getLightState(s.lightSystem),
                          !.activeKeyframeIndex = index,
                          !.camera = applyExternalCameraState(@, frame.camera),
                          !.lightSystem = applyLightState(@, frame.lights)]
      IN  renderTransitionMenu(applySelectionSnapshot(s1, frame.models))

\* exitKeyframeEditing: its parameter clearSelection shadows the function of
\* that name, so the call clearSelection() with the parameter true throws.
exitKeyframeEditing(s, restoreCamera, restoreLights, restoreModels, clearSel, activateGlobalTab) ==
    IF ~s.isEditing THEN s
    ELSE
      LET normalized == normalizeKeyframe(s, ArrayGet(s.keyframes, s.editingIndex))
          frame == [normalized EXCEPT !.camera = getCameraState(s),
                                      !.lights = getLightState(s.lightSystem),
                                      !.models = getSelectionSnapshot(s)]
          s1 == saveKeyframes([s EXCEPT !.keyframes = ArraySet(@, s.editingIndex, frame)])
          s2 == [s1 EXCEPT
                   !.camera = IF restoreCamera THEN applyExternalCameraState(@, s.prevCameraState)
                              ELSE @,
                   !.lightSystem = IF restoreLights THEN applyLightState(@, s.prevLightState)
                                   ELSE @]
          s3 == IF restoreModels
                THEN applySelectionSnapshot(s2, s2.globalModelSelectionBeforeKeyframe)
                ELSE s2
          s4 == [s3 EXCEPT !.isEditing = FALSE, !.editingIndex = NoIndex,
                           !.prevCameraState = NULL, !.prevLightState = NULL]
      IN  IF clearSel THEN [s4 EXCEPT !.threw = TRUE] ELSE s4

closeEditor(s) == exitKeyframeEditing(s, FALSE, FALSE, FALSE, FALSE, FALSE)


(***************************************************************************)
(* Timeline Scheduler: applying frames and transitions, sampling.          *)
(***************************************************************************)
\* Every checkbox of the model is named in a snapshot; the models belong to
\* no group.
getModelVisibilityFromSnapshot(snapshot, idx) ==
    IF snapshot = NULL THEN FALSE ELSE snapshot.models[idx]

buildVisibilityMap(snapshot) ==
    [i \in ModelIds |-> getModelVisibilityFromSnapshot(snapshot, i)]

LogEvaluation(s, transitionFrame, key, t) ==
    [s EXCEPT !.evalLog = Append(@, [key |-> key, t |-> t,
                                     entry |-> getTransitionEntry(transitionFrame, key)])]

\* The start snapshot is applied once per playback segment.
ApplyStartSnapshot(s, startSnapshot) ==
    IF s.playbackSegment # NULL /\ ~s.playbackSegment.modelsStartApplied
    THEN [applySelectionSnapshot([s EXCEPT !.suppressModelSelectionSave = TRUE],
                                 startSnapshot)
            EXCEPT !.suppressModelSelectionSave = FALSE,
                   !.playbackSegment.modelsStartApplied = TRUE]
    ELSE s

\* The per-model opacity and visibility override of a transition.
BlendModels(s, startMap, endMap, easedT) ==
    [s EXCEPT
       !.opacity = [i \in ModelIds |->
          IF startMap[i] /\ ~endMap[i] THEN clamp01(RSub(Z(1), easedT))
          ELSE IF ~startMap[i] /\ endMap[i] THEN clamp01(easedT)
          ELSE IF startMap[i] /\ endMap[i] THEN Z(1)
          ELSE Z(0)],
       !.visibilityOverrides = {i \in ModelIds : startMap[i] # endMap[i]}]

\* The end snapshot is applied once per playback segment, at t >= 1.
ApplyEndSnapshot(s, endSnapshot, t) ==
    IF RLe(Z(1), t) /\ s.playbackSegment # NULL /\ ~s.playbackSegment.modelsEndApplied
    THEN [applySelectionSnapshot([s EXCEPT !.suppressModelSelectionSave = TRUE],
                                 endSnapshot)
            EXCEPT !.visibilityOverrides = {},
                   !.opacity = [i \in ModelIds |-> Z(1)],
                   !.suppressModelSelectionSave = FALSE,
                   !.playbackSegment.modelsEndApplied = TRUE]
    ELSE s

applyModelTransition(s, startSnapshot, endSnapshot, t, transitionFrame) ==
    ApplyEndSnapshot(
        BlendModels(
            ApplyStartSnapshot(LogEvaluation(s, transitionFrame, "models", t),
                               startSnapshot),
            buildVisibilityMap(startSnapshot),
            buildVisibilityMap(endSnapshot),
            evaluateTransition(transitionFrame, "models", t)),
        endSnapshot, t)

\* interpolateCameraState reads start.pos.x and end.pos.x: a camera snapshot
\* without pos or target ends the handler in a TypeError.
CameraThrows(startFrame, endFrame) ==
    ~IsCameraRecord(startFrame.camera) \/ ~IsCameraRecord(endFrame.camera)

applyCameraTransition(s, startFrame, endFrame, t, transitionFrame) ==
    IF CameraThrows(startFrame, endFrame)
    THEN [LogEvaluation(s, transitionFrame, "camera", t) EXCEPT !.threw = TRUE]
    ELSE [LogEvaluation(s, transitionFrame, "camera", t) EXCEPT
            !.camera = applyExternalCameraState(
                          @, interpolateCameraState(
                                 startFrame.camera, endFrame.camera,
                                 evaluateTransition(transitionFrame, "camera", t)))]

applyLightingTransition(s, startFrame, endFrame, t, transitionFrame) ==
    LET easedT == evaluateTransition(transitionFrame, "lights", t)
    IN  [LogEvaluation(s, transitionFrame, "lights", t) EXCEPT
           !.lightSystem = applyLightStateInterpolated(@, startFrame.lights,
                                                       endFrame.lights, easedT)]

applyFrameState(s, frame) ==
    LET s1 == [s EXCEPT !.camera = applyExternalCameraState(@, frame.camera),
                        !.lightSystem = applyLightState(@, frame.lights)]
        s2 == applySelectionSnapshot(s1, frame.models)
    IN  [s2 EXCEPT !.visibilityOverrides = {},
                   !.opacity = [i \in ModelIds |-> Z(1)]]

ensureFrameData(s, frame) ==
    [frame EXCEPT !.lights = IF @ = NULL THEN getLightState(s.lightSystem) ELSE @,
                  !.models = IF @ = NULL THEN getSelectionSnapshot(s) ELSE @]

Ms(seconds) == RMax(Z(0), RMul(seconds, Z(1000)))

\* The three transitions of one sampled or played instant.
ApplyTransitions(s, startFrame, endFrame, t) ==
    IF CameraThrows(startFrame, endFrame)
    THEN applyCameraTransition([s EXCEPT !.threw = FALSE],
                               startFrame, endFrame, t, startFrame)
    ELSE applyModelTransition(
             applyLightingTransition(
                 applyCameraTransition([s EXCEPT !.threw = FALSE],
                                       startFrame, endFrame, t, startFrame),
                 startFrame, endFrame, t, startFrame),
             startFrame.models, endFrame.models, t, startFrame)

\* Raw progress measured from the start of the timeline instead.
RawProgressFromZero(clamped, afterHold, transitionMs) ==
    IF RLe(transitionMs, Z(0)) THEN Z(1)
    ELSE RDiv(clamped, transitionMs)

\* Raw progress through the transition window that starts at afterHold.
RawProgress(clamped, afterHold, transitionMs) ==
    IF RLe(transitionMs, Z(0)) THEN Z(1)
    ELSE RDiv(RSub(clamped, afterHold), transitionMs)

\* The transitions of applyAtTime and the return after them, which puts
\* suppressModelSelectionSave back; a TypeError leaves before that.
SampleTransitions(s, frame, nextFrame, t, prevSuppress) ==
    IF CameraThrows(frame, nextFrame)
    THEN ApplyTransitions(s, frame, nextFrame, t)
    ELSE [ApplyTransitions(s, frame, nextFrame, t) EXCEPT
            !.suppressModelSelectionSave = prevSuppress]

RECURSIVE ApplyAtTimeLoop(_, _, _, _, _)
\* One iteration of the loop over the keyframes, frame being keyframe i.
ApplyAtTimeWindow(s, clamped, i, frame, afterHold, transitionMs, prevSuppress) ==
    IF RLe(clamped, afterHold) \/ i = Len(s.keyframes) - 1
    THEN [applyFrameState(s, frame) EXCEPT !.suppressModelSelectionSave = prevSuppress]
    ELSE IF RLe(clamped, RAdd(afterHold, transitionMs))
    THEN SampleTransitions(
             s, frame,
             ensureFrameData(s, normalizeKeyframe(s, ArrayGet(s.keyframes, i + 1))),
             RawProgress(clamped, afterHold, transitionMs), prevSuppress)
    ELSE ApplyAtTimeLoop(s, clamped, i + 1, RAdd(afterHold, transitionMs), prevSuppress)

ApplyAtTimeFrame(s, clamped, i, elapsed, frame, prevSuppress) ==
    ApplyAtTimeWindow(s, clamped, i, frame, RAdd(elapsed, Ms(frame.holdDuration)),
                      Ms(frame.transitionDuration), prevSuppress)

ApplyAtTimeLoop(s, clamped, i, elapsed, prevSuppress) ==
    ApplyAtTimeFrame(s, clamped, i, elapsed,
                     ensureFrameData(s, normalizeKeyframe(s, ArrayGet(s.keyframes, i))),
                     prevSuppress)

\* timeMs is NULL when the argument is no finite number.
applyAtTime(s, timeMs) ==
    IF Len(s.keyframes) = 0 THEN [s EXCEPT !.threw = FALSE]
    ELSE ApplyAtTimeLoop([s EXCEPT !.suppressModelSelectionSave = TRUE,
                                   !.evalLog = << >>,
                                   !.threw = FALSE],
                         RMax(Z(0), IF timeMs = NULL THEN Z(0) ELSE timeMs), 0, Z(0),
                         s.suppressModelSelectionSave)


(***************************************************************************)
(* Playback Controller: live playback driven by animation frames.          *)
(***************************************************************************)
\* The start and end frames startSegment and tickPlayback work on.
SegmentFrames(s, fromIndex, toIndex) ==
    LET start0 == normalizeKeyframe(s, ArrayGet(s.keyframes, fromIndex))
        end0 == normalizeKeyframe(s, ArrayGet(s.keyframes, toIndex))
        startFrame == ensureFrameData(s, start0)
    IN  [startFrame |-> startFrame,
         endFrame |-> [end0 EXCEPT
                         !.lights = IF @ = NULL THEN startFrame.lights ELSE @,
                         !.models = IF @ = NULL THEN startFrame.models ELSE @]]

startSegment(s, fromIndex, toIndex, nowMs) ==
    LET startFrame == normalizeKeyframe(s, ArrayGet(s.keyframes, fromIndex))
        holdDuration == RMax(Z(0), startFrame.holdDuration)
        transitionDuration == RMax(Z(0), startFrame.transitionDuration)
        segment == [fromIndex |-> fromIndex, toIndex |-> toIndex, startTimeMs |-> nowMs,
                    holdDurationMs |-> RMul(holdDuration, Z(1000)),
                    transitionDurationMs |-> RMul(transitionDuration, Z(1000)),
                    phase |-> IF RLt(Z(0), holdDuration) THEN "hold" ELSE "transition",
                    holdApplied |-> FALSE, modelsStartApplied |-> FALSE,
                    modelsEndApplied |-> FALSE]
    IN  selectKeyframe([s EXCEPT !.playbackSegment = segment], fromIndex, FALSE)

\* A tick that does not stop playback at the last keyframe.
TickAdvanceNoStop(s, nowMs, rawT, toIndex) ==
    IF RLe(Z(1), rawT)
    THEN LET sel == selectKeyframe([s EXCEPT !.playbackIndex = toIndex], toIndex, FALSE)
         IN  IF sel.playbackIndex >= Len(sel.keyframes) - 1 THEN sel
             ELSE requestAnimationFrame(
                    startSegment(sel, sel.playbackIndex, sel.playbackIndex + 1, nowMs))
    ELSE requestAnimationFrame(s)

\* tickPlayback once the transitions of the instant are applied.
TickAdvance(s, nowMs, rawT, toIndex) ==
    IF RLe(Z(1), rawT)
    THEN LET sel == selectKeyframe([s EXCEPT !.playbackIndex = toIndex], toIndex, FALSE)
         IN  IF sel.playbackIndex >= Len(sel.keyframes) - 1 THEN stopPlayback(sel)
             ELSE requestAnimationFrame(
                    startSegment(sel, sel.playbackIndex, sel.playbackIndex + 1, nowMs))
    ELSE requestAnimationFrame(s)

TickProgress(seg, nowMs) ==
    IF RLe(seg.transitionDurationMs, Z(0)) THEN Z(1)
    ELSE RMin(Z(1), RMax(Z(0), RDiv(RSub(nowMs, seg.startTimeMs),
                                    seg.transitionDurationMs)))

TickBlend(s, nowMs, frames, rawT) ==
    TickAdvance(ApplyTransitions(s, frames.startFrame, frames.endFrame, rawT),
                nowMs, rawT, s.playbackSegment.toIndex)

\* The part of tickPlayback after the hold phase is over.
TickTransition(s, nowMs, frames) ==
    TickBlend(s, nowMs, frames, TickProgress(s.playbackSegment, nowMs))

\* The hold phase applies the start frame once.
TickHoldApply(s, startFrame) ==
    IF s.playbackSegment.phase = "hold" /\ ~s.playbackSegment.holdApplied
    THEN [applySelectionSnapshot(
            [s EXCEPT !.camera = applyExternalCameraState(@, startFrame.camera),
                      !.lightSystem = applyLightState(@, startFrame.lights)],
            startFrame.models)
            EXCEPT !.playbackSegment.holdApplied = TRUE]
    ELSE s

TickPhase(s, nowMs, frames, seg) ==
    IF seg.phase = "hold"
    THEN IF RLe(seg.holdDurationMs, Z(0))
            \/ RLe(seg.holdDurationMs, RSub(nowMs, seg.startTimeMs))
         THEN TickTransition([s EXCEPT !.playbackSegment.phase = "transition",
                                       !.playbackSegment.startTimeMs = nowMs],
                             nowMs, frames)
         ELSE requestAnimationFrame(s)
    ELSE TickTransition(s, nowMs, frames)

TickFrames(s, nowMs, frames) ==
    TickPhase(TickHoldApply(s, frames.startFrame), nowMs, frames, s.playbackSegment)

tickPlayback(s, nowMs) ==
    IF ~s.isPlaying \/ s.playbackSegment = NULL THEN s
    ELSE TickFrames(s, nowMs, SegmentFrames(s, s.playbackSegment.fromIndex,
                                            s.playbackSegment.toIndex))

startPlayback(s, fromStart, nowMs) ==
    IF Len(s.keyframes) = 0 \/ s.isPlaying THEN s
    ELSE
      LET s1 == [s EXCEPT !.isPlaying = TRUE,
                          !.suppressModelSelectionSave = TRUE,
                          !.playbackIndex =
                             IF fromStart \/ s.activeKeyframeIndex = NoIndex THEN 0
                             ELSE s.activeKeyframeIndex]
      IN  IF s1.playbackIndex >= Len(s1.keyframes) - 1
          THEN stopPlayback(selectKeyframe(s1, s1.playbackIndex, TRUE))
          ELSE requestAnimationFrame(clearPlaybackRaf(
                 startSegment(s1, s1.playbackIndex,
                              Min(s1.playbackIndex + 1, Len(s1.keyframes) - 1), nowMs)))

startPlaybackFromBeginning(s, nowMs) ==
    startPlayback(IF s.isPlaying THEN stopPlayback(s) ELSE s, TRUE, nowMs)


(***************************************************************************)
(* Loading the stored timeline.                                            *)
(***************************************************************************)
\* frame with the properties of extra written over it ({ ...frame, ...extra }).
Spread(frame, extra) ==
    [k \in DOMAIN frame \cup DOMAIN extra |->
       IF k \in DOMAIN extra THEN extra[k] ELSE frame[k]]

\* The migration of a stored timeline whose frames carry a time stamp.
MigrateLegacy(s, legacyFrames) ==
    LET count == Len(legacyFrames)
        times == [k \in 1..count |-> OrElse(Field(legacyFrames[k], "time"), Z(0))]
        migrated == [k \in 1..count |->
           normalizeKeyframe(s, Spread(legacyFrames[k],
              [holdDuration |-> Z(0),
               transitionDuration |->
                  IF k < count THEN RMax(Z(0), RSub(times[k + 1], times[k])) ELSE Z(0),
               transitions |-> NoTransitions]))]
        \* legacy frame k (1-based) hands its transitions to frame max(1, k - 1);
        \* of the frames that target the same one, the last spread wins per key.
        Sources(target) == {k \in 1..count :
                              /\ Max(1, k - 1) = target
                              /\ Field(legacyFrames[k], "transitions") # NULL
                              /\ \E key \in TransitionKeys :
                                    legacyFrames[k].transitions[key] # NULL}
        Winner(target, key) ==
           LET having == {k \in Sources(target) : legacyFrames[k].transitions[key] # NULL}
           IN  IF having = {} THEN NULL
               ELSE legacyFrames[CHOOSE k \in having : \A j \in having : j <= k].transitions[key]
    IN  [k \in 1..count |->
           [migrated[k] EXCEPT !.transitions =
              [key \in TransitionKeys |-> OrElse(Winner(k, key), migrated[k].transitions[key])]]]

\* frames.some(frame => hasOwnProperty.call(frame, name) || ...) throws when
\* it comes to a null entry before it has found a frame with such a property.
SomeThrows(frames, names) ==
    \E k \in 1..Len(frames) :
       /\ frames[k] = NULL
       /\ \A j \in 1..(k - 1) :
             frames[j] # NULL /\ names \cap DOMAIN frames[j] = {}

\* An exception of hasOwnProperty.call is swallowed by the catch block, which
\* leaves the store as it was.
loadKeyframes(s) ==
    LET saved == s.storage
    IN  IF saved = NULL THEN s
        ELSE IF \/ SomeThrows(saved.keyframes, {"time"})
                \/ SomeThrows(saved.keyframes, {"holdDuration", "transitionDuration"})
        THEN s
        ELSE
          LET legacyFrames == saved.keyframes
              hasLegacyTime == \E k \in 1..Len(legacyFrames) : "time" \in DOMAIN legacyFrames[k]
              hasDurationFields ==
                 \E k \in 1..Len(legacyFrames) :
                    \/ "holdDuration" \in DOMAIN legacyFrames[k]
                    \/ "transitionDuration" \in DOMAIN legacyFrames[k]
              loaded == IF hasLegacyTime /\ ~hasDurationFields
                        THEN MigrateLegacy(s, legacyFrames)
                        ELSE [k \in 1..Len(legacyFrames) |->
                                normalizeKeyframe(s, legacyFrames[k])]
          IN  [enforceKeyframeDurations([s EXCEPT !.keyframes = loaded])
                 EXCEPT !.activeKeyframeIndex = NoIndex]


(***************************************************************************)
(* Construction, and the specification of the interactive store            *)
(* operations.                                                             *)
(***************************************************************************)
DefaultCamera ==
    [pos |-> Z(10), target |-> Z(0), roll |-> Z(0), fov |-> Z(50), mode |-> "perspective"]

DefaultLights ==
    [ambient |-> [color |-> White, intensity |-> Z(1)], lights |-> << DefaultLight >>]

DefaultSelection ==
    [models |-> [m \in ModelIds |-> TRUE], versions |-> [m \in ModelIds |-> "v0"]]

\* handleAnimationExport is not running and has not run: the export dialog
\* is open with an empty status line.  buttonsDisabled is the disabled flag
\* of the dialog's save and close buttons; before remembers the scene at the
\* moment the handler locked the page, for the claims only.
ExportIdle ==
    [pc |-> "idle", settings |-> NULL, durationMs |-> Z(0), effectiveFps |-> 0,
     totalFrames |-> 0, i |-> 0, samples |-> << >>, submitted |-> << >>,
     accepted |-> << >>, inFlight |-> {}, responses |-> << >>, looped |-> FALSE,
     finished |-> FALSE, saved |-> FALSE, writeFailed |-> FALSE, status |-> "",
     dialogOpen |-> TRUE, prev |-> NULL, buttonsDisabled |-> FALSE, before |-> NULL]

\* The state createKeyframeSystem leaves behind when the page has loaded with
\* the given text in localStorage: the module's initial values, then
\* loadKeyframes.
Constructed(saved) ==
    loadKeyframes(
      [keyframes |-> << >>, activeKeyframeIndex |-> NoIndex, isEditing |-> FALSE,
       editingIndex |-> NoIndex, prevCameraState |-> NULL, prevLightState |-> NULL,
       globalLightStateBeforeKeyframe |-> NULL,
       globalModelSelectionBeforeKeyframe |-> NULL,
       isPlaying |-> FALSE, playbackRaf |-> "none", playbackIndex |-> 0,
       playbackSegment |-> NULL, suppressModelSelectionSave |-> FALSE,
       storage |-> saved, camera |-> DefaultCamera, lightSystem |-> DefaultLights,
       allowStructureEdit |-> TRUE,
       selection |-> DefaultSelection, opacity |-> [m \in ModelIds |-> Z(1)],
       visibilityOverrides |-> {}, evalLog |-> << >>, threw |-> FALSE, rafPending |-> 0])

InitWith(saved, budget) ==
    /\ Install(Constructed(saved))
    /\ now = 0
    /\ playStartMs = 0
    /\ export = ExportIdle
    /\ lastCall = [op |-> "createKeyframeSystem"]
    /\ opsLeft = budget

MaxOps == 6

Init == InitWith(NULL, MaxOps)

\* One more handler may run.
Step ==
    /\ opsLeft > 0
    /\ opsLeft' = opsLeft - 1

\* A handler ran to its end: its effect on the store, and what ran.
Ran(s, call) ==
    /\ Step
    /\ Commit([s EXCEPT !.threw = @ /\ call.op \in {"exitKeyframeEditing", "applyAtTime"}])
    /\ lastCall' = call
    /\ UNCHANGED << now, playStartMs, export >>

MaxKeyframes == 2

CameraPositions == {Z(10), Z(20)}
DurationInputs == {NULL, Z(-1), R(1, 2)}
CurveTypes == {"linear", "s-curve"}

AddKeyframe ==
    /\ Len(keyframes) < MaxKeyframes
    /\ Ran(addKeyframe(State), [op |-> "addKeyframe"])

SelectKeyframe ==
    \E index \in 0..(Len(keyframes) - 1) :
       Ran(selectKeyframe(State, index, TRUE), [op |-> "selectKeyframe"])

ClearSelection ==
    /\ activeKeyframeIndex # NoIndex
    /\ Ran(clearSelection(State), [op |-> "clearSelection"])

MoveActiveKeyframe ==
    \E direction \in {-1, 1} :
       /\ activeKeyframeIndex # NoIndex
       /\ Ran(moveActiveKeyframe(State, direction),
              [op |-> "moveActiveKeyframe"])

RemoveActiveKeyframe ==
    /\ activeKeyframeIndex # NoIndex
    /\ Ran(removeActiveKeyframe(State), [op |-> "removeActiveKeyframe"])

HoldInput ==
    \E index \in 0..(Len(keyframes) - 1), value \in DurationInputs :
       /\ keyframes[index + 1] # NULL
       /\ Ran(HoldInputChange(State, index, value),
              [op |-> "holdInput"])

TransitionInput ==
    \E index \in 0..(Len(keyframes) - 1), value \in DurationInputs :
       /\ keyframes[index + 1] # NULL
       /\ Ran(TransitionInputChange(State, index, value),
              [op |-> "transitionInput"])

TransitionSelect ==
    \E key \in getChangedItems(State, activeKeyframeIndex), type \in CurveTypes :
       Ran(TransitionSelectChange(State, key, type),
           [op |-> "transitionSelect"])

UpdateButton ==
    /\ activeKeyframeIndex # NoIndex
    /\ Ran(UpdateButtonHandler(State), [op |-> "updateButton"])

OpenEditor ==
    \E index \in 0..(Len(keyframes) - 1) :
       /\ keyframes[index + 1] # NULL
       /\ Ran(openEditor(State, index), [op |-> "openEditor"])

CloseEditor ==
    /\ isEditing
    /\ Ran(closeEditor(State), [op |-> "closeEditor"])

\* The change handler of a model's checkbox: updateVisibility reports the new
\* selection through the change callback.
CheckboxChange(s, m) ==
    LET snapshot == [s.selection EXCEPT !.models[m] = ~@]
    IN  SelectionChangeCallback([s EXCEPT !.selection = snapshot], snapshot)

ToggleModel ==
    \E m \in ModelIds : Ran(CheckboxChange(State, m), [op |-> "toggleModel"])

\* The user moves the camera with the controls.
CameraMove ==
    \E pos \in CameraPositions :
       /\ pos # camera.pos
       /\ Ran([State EXCEPT !.camera.pos = pos], [op |-> "cameraMove"])

\* The page is loaded again: construction over what localStorage holds.
Reload ==
    /\ Step
    /\ Commit(Constructed(storage))
    /\ lastCall' = [op |-> "createKeyframeSystem"]
    /\ UNCHANGED << now, playStartMs, export >>

Next ==
    \/ AddKeyframe
    \/ SelectKeyframe
    \/ ClearSelection
    \/ MoveActiveKeyframe
    \/ RemoveActiveKeyframe
    \/ HoldInput
    \/ TransitionInput
    \/ TransitionSelect
    \/ UpdateButton
    \/ OpenEditor
    \/ CloseEditor
    \/ ToggleModel
    \/ CameraMove
    \/ Reload

Spec == Init /\ [][Next]_vars


(***************************************************************************)
(* Sampling: timelines saved by an earlier session, sampled at chosen      *)
(* instants while the live scene and the playback state vary.              *)
(***************************************************************************)
Sel(visible, version) ==
    [models |-> [m \in ModelIds |-> visible], versions |-> [m \in ModelIds |-> version]]

\* One directional light, as construction leaves it.
LightsA == getLightState(DefaultLights)

\* A dimmer ambient light and one spot light with a narrowed cone.
LightsB ==
    [ambient |-> [color |-> White, intensity |-> R(1, 2)],
     directional |-> << [type |-> "spot", color |-> White, intensity |-> Z(2),
                         offset |-> Z(10), targetOffset |-> Z(0), distance |-> Z(0),
                         angle |-> R(1, 2), penumbra |-> Z(0), decay |-> Z(2)] >>]

Easing(type) == [type |-> type, curve |-> getPresetCurve(type)]

KF(pos, lights, models, hold, transition, transitions) ==
    [camera |-> [DefaultCamera EXCEPT !.pos = pos], lights |-> lights, models |-> models,
     holdDuration |-> hold, transitionDuration |-> transition, transitions |-> transitions]

Saved(frames) == [keyframes |-> frames, activeIndex |-> NoIndex]

\* No holds, one linear 2 s transition in which camera, lights and model
\* version all change.
TimelineBlend ==
    Saved(<< KF(Z(10), LightsA, Sel(TRUE, "v0"), Z(0), Z(2), NoTransitions),
             KF(Z(20), LightsB, Sel(TRUE, "v1"), Z(0), Z(0), NoTransitions) >>)

\* A 1 s hold, then a cut to a last keyframe without hold.
TimelineCut ==
    Saved(<< KF(Z(10), LightsA, Sel(TRUE, "v0"), Z(1), Z(0), NoTransitions),
             KF(Z(20), LightsA, Sel(TRUE, "v0"), Z(0), Z(0), NoTransitions) >>)

\* Three keyframes with holds; an eased camera move, then a model fading out.
TimelineThree ==
    Saved(<< KF(Z(10), LightsA, Sel(TRUE, "v0"), Z(1), Z(1),
                [NoTransitions EXCEPT !["camera"] = Easing("s-curve")]),
             KF(Z(20), LightsA, Sel(TRUE, "v0"), Z(1), Z(1), NoTransitions),
             KF(Z(20), LightsA, Sel(FALSE, "v0"), Z(1), Z(0), NoTransitions) >>)

SampleTimelines == {TimelineBlend, TimelineCut, TimelineThree}

\* Sample instants in ms; NULL stands for an argument that is no finite number.
SampleTimes ==
    {NULL} \cup {Z(ms) : ms \in {-500, 0, 500, 1000, 1500, 2000, 2500, 3000, 4000, 5000, 6000}}

MaxSampleOps == 3

SampleInit == \E saved \in SampleTimelines : InitWith(saved, MaxSampleOps)

Sample ==
    \E timeMs \in SampleTimes :
       /\ Ran(applyAtTime(State, timeMs), [op |-> "applyAtTime", timeMs |-> timeMs])

PlayFromStart ==
    /\ Step
    /\ Commit(startPlaybackFromBeginning(State, Z(now)))
    /\ playStartMs' = now
    /\ lastCall' = [op |-> "startPlaybackFromBeginning"]
    /\ UNCHANGED << now, export >>

\* The play button while playback runs: stopPlayback().  The call is
\* remembered with the segment it interrupts and the time it arrives at.
StopPlayback ==
    /\ isPlaying
    /\ Ran(stopPlayback(State),
           [op |-> "stopPlayback", segment |-> playbackSegment, atMs |-> now])

SampleNext ==
    \/ Sample
    \/ CameraMove
    \/ ToggleModel
    \/ PlayFromStart
    \/ StopPlayback

SampleSpec == SampleInit /\ [][SampleNext]_vars

(***************************************************************************)
(* Live playback: the clock advances and a pending animation-frame         *)
(* callback runs tickPlayback with the time stamp of the frame.            *)
(***************************************************************************)
\* Milliseconds between two animation frames.
TickDeltas == {400, 1000}

MaxPlayOps == 5

PlayInit == \E saved \in SampleTimelines : InitWith(saved, MaxPlayOps)

\* A requested animation frame arrives: the handle it was requested under is
\* the one playbackRaf holds (current) or an older one.
TickAt(delta, current) ==
    /\ rafPending > 0
    /\ IF current THEN playbackRaf = "pending"
       ELSE rafPending > (IF playbackRaf = "pending" THEN 1 ELSE 0)
    /\ now' = now + delta
    /\ Commit(tickPlayback([State EXCEPT !.rafPending = @ - 1,
                                         !.playbackRaf = IF current THEN "fired" ELSE @],
                           Z(now + delta)))
    /\ lastCall' = [op |-> "tickPlayback"]
    /\ UNCHANGED << playStartMs, export >>

Tick ==
    \E delta \in TickDeltas, current \in BOOLEAN :
       /\ Step
       /\ TickAt(delta, current)

PlayNext ==
    \/ PlayFromStart
    \/ Tick
    \/ StopPlayback

PlaySpec == PlayInit /\ [][PlayNext]_vars

(***************************************************************************)
(* Animation export (app.js, handleAnimationExport).  An export is the     *)
(* pair x = [s, e] of the keyframe system's state and the handler's own    *)
(* state e; the handler runs from one await to the next.                   *)
(***************************************************************************)
\* getAnimationDurationMs (app.js) over the frames getKeyframes returns.
RECURSIVE DurationOf(_, _)
DurationOf(frames, k) ==
    IF k > Len(frames) THEN Z(0)
    ELSE RAdd(RMul(RAdd(RMax(Z(0), OrElse(Field(frames[k], "holdDuration"), Z(0))),
                        RMax(Z(0), OrElse(Field(frames[k], "transitionDuration"), Z(0)))),
                   Z(1000)),
              DurationOf(frames, k + 1))

getAnimationDurationMs(s) == DurationOf(s.keyframes, 1)

setAnimationExportStatus(e, message) == [e EXCEPT !.status = message]

closeAnimationExportDialog(e) == [e EXCEPT !.dialogOpen = FALSE, !.status = ""]

\* input: what the dialog's fields hold, and whether the browser offers
\* window.showSaveFilePicker.  The resolution is one that is never too heavy.
getAnimationExportSettings(input) ==
    [fps |-> Max(1, Min(60, input.fps)), quality |-> input.quality,
     type |-> IF input.quality = "lossless" THEN "webm" ELSE input.type,
     renderer |-> input.renderer, picker |-> input.picker]

EffectiveFps(settings) ==
    IF settings.quality = "lossless" /\ settings.fps > 30 THEN 30 ELSE settings.fps

\* Frames of one frame too few.
TotalFramesShort(durationMs, effectiveFps) ==
    Max(1, RCeil(RMul(RDiv(durationMs, Z(1000)), Z(effectiveFps))))

TotalFrames(durationMs, effectiveFps) ==
    Max(1, RCeil(RMul(RDiv(durationMs, Z(1000)), Z(effectiveFps))) + 1)

FrameTime(e, i) ==
    RMin(e.durationMs, RMul(RDiv(Z(i), Z(e.effectiveFps)), Z(1000)))

\* keyframeSystem.applyAtTime(timeMs) of loop index i.
SampleFrame(x, i) ==
    [s |-> applyAtTime(x.s, FrameTime(x.e, i)),
     e |-> [x.e EXCEPT !.i = i, !.samples = Append(@, FrameTime(x.e, i))]]

\* The finally block: playback stops, the camera, lights and selection of
\* before the export come back.
RestoreScene(s, prev) ==
    applySelectionSnapshot(
        [s EXCEPT !.camera = applyExternalCameraState(@, prev.camera),
                  !.lightSystem = applyLightState(@, prev.lights)],
        prev.selection)

\* A finally block that does not stop playback.
FinallyStillPlaying(x) ==
    [s |-> RestoreScene(x.s, x.e.prev),
     e |-> [x.e EXCEPT !.pc = "done", !.inFlight = {}, !.buttonsDisabled = FALSE]]

Finally(x) ==
    [s |-> RestoreScene(stopPlayback(x.s), x.e.prev),
     e |-> [x.e EXCEPT !.pc = "done", !.inFlight = {}, !.buttonsDisabled = FALSE]]

\* A return with a status message, or the catch block with err.message.
Fail(x, message) == Finally([x EXCEPT !.e = setAnimationExportStatus(@, message)])

\* Path tracing: the loop body up to the await of the rendered snapshot.
PathTracingFrame(x, i) == [SampleFrame(x, i) EXCEPT !.e.pc = "render"]

\* Raster: the loop body up to the await of the frame timeout; the frame is
\* rendered and handed to the capture track at once.
RecorderFrame(x, i) ==
    [SampleFrame(x, i) EXCEPT !.e.pc = "wait", !.e.submitted = Append(@, i),
                              !.e.accepted = Append(@, i)]

BeginExport(s, settings, durationMs, e) ==
    IF settings.renderer = "pathtracing"
    THEN [s |-> s, e |-> [e EXCEPT !.pc = IF settings.picker THEN "picker" ELSE "start"]]
    ELSE IF settings.type = "gif"
    THEN Fail([s |-> s, e |-> e],
              "GIF export is not supported in this browser. Use WebM or MP4.")
    ELSE IF settings.picker THEN [s |-> s, e |-> [e EXCEPT !.pc = "recorderPicker"]]
    ELSE RecorderFrame([s |-> s, e |-> e], 0)

\* The handler up to its first await.
StartExport(s, settings, durationMs) ==
    IF durationMs = Z(0)
    THEN [s |-> s, e |-> [ExportIdle EXCEPT !.pc = "done", !.settings = settings,
                                          !.status = "Add keyframes before exporting."]]
    ELSE BeginExport(s, settings, durationMs,
           [ExportIdle EXCEPT
              !.settings = settings, !.durationMs = durationMs,
              !.effectiveFps = EffectiveFps(settings),
              !.totalFrames = TotalFrames(durationMs, EffectiveFps(settings)),
              !.prev = [camera |-> getCameraState(s),
                        lights |-> getLightState(s.lightSystem),
                        selection |-> getSelectionSnapshot(s)],
              !.buttonsDisabled = TRUE,
              !.before = [camera |-> s.camera, lightSystem |-> s.lightSystem,
                          selection |-> s.selection, isPlaying |-> s.isPlaying],
              !.status = IF settings.renderer = "pathtracing"
                         THEN "Rendering path traced frames..."
                         ELSE "Recording animation..."])

handleAnimationExport(s, input) ==
    StartExport(s, getAnimationExportSettings(input), getAnimationDurationMs(s))

\* await showSaveFilePicker (path tracing): a handle, or the user cancels.
AfterPicker(x, ok) ==
    IF ok THEN [x EXCEPT !.e.pc = "start"] ELSE Fail(x, "The user aborted a request.")

\* await fetch('/pathtracing_animation/start') and its JSON.
AfterStart(x, result) ==
    CASE result = "ok" -> PathTracingFrame(x, 0)
      [] result = "notOk" -> Fail(x, "Failed to start path tracing export.")
      [] result = "noSession" -> Fail(x, "Path tracing export session failed.")
      [] OTHER -> Fail(x, "Failed to fetch")

\* The frame went through: the next loop iteration, or the finish request.
NextFrame(x) ==
    IF x.e.i + 1 < x.e.totalFrames THEN PathTracingFrame(x, x.e.i + 1)
    ELSE [x EXCEPT !.e.looped = TRUE, !.e.finished = TRUE, !.e.pc = "finish"]

\* The upload of the blob is started and not awaited.
AfterRenderNoAwait(x, result) ==
    CASE result = "blob" ->
           NextFrame([x EXCEPT !.e.submitted = Append(@, x.e.i),
                               !.e.inFlight = @ \cup {x.e.i}])
      [] result = "null" -> Fail(x, "Path tracing frame failed to render.")
      [] OTHER -> Fail(x, "Export failed.")

\* await renderPathTracingSnapshot: a blob goes to the upload.
AfterRender(x, result) ==
    CASE result = "blob" ->
           [x EXCEPT !.e.pc = "upload", !.e.submitted = Append(@, x.e.i),
                     !.e.inFlight = @ \cup {x.e.i}]
      [] result = "null" -> Fail(x, "Path tracing frame failed to render.")
      [] OTHER -> Fail(x, "Export failed.")

\* The sink has taken frame i.
AcceptFrame(e) == [e EXCEPT !.inFlight = @ \ {e.i}, !.accepted = Append(@, e.i)]

\* The upload counts as accepted whatever the response says.
AfterUploadUnchecked(x, result) ==
    IF result = "throws"
    THEN Fail(x, "Failed to fetch")
    ELSE NextFrame([x EXCEPT !.e = AcceptFrame(@)])

\* await fetch('/pathtracing_animation/frame'); x.e.responses holds what the
\* server answered to every upload so far, this one included.
AfterUpload(x, result) ==
    CASE result = "ok" -> NextFrame([x EXCEPT !.e = AcceptFrame(@)])
      [] result = "notOk" -> Fail(x, "Failed to upload path tracing frame.")
      [] OTHER -> Fail(x, "Failed to fetch")

\* await fetch('/pathtracing_animation/finish') and the video blob.
AfterFinish(x, result) ==
    CASE result = "ok" -> [x EXCEPT !.e.status = "Saving...", !.e.pc = "save"]
      [] result = "notOk" -> Fail(x, "Failed to encode path traced animation.")
      [] result = "empty" -> Fail(x, "Path traced animation failed to render.")
      [] OTHER -> Fail(x, "Failed to fetch")

\* The file is written (or the write throws) and the dialog closes.
AfterSave(x, ok) ==
    IF ok THEN Finally([x EXCEPT !.e = closeAnimationExportDialog(@), !.e.saved = TRUE])
    ELSE Fail(x, "Export failed.")

\* await showSaveFilePicker and createWritable (raster).
AfterRecorderPicker(x, ok) ==
    IF ok THEN RecorderFrame(x, 0) ELSE Fail(x, "The user aborted a request.")

\* The loop goes on after its frame timeout whatever became of writeChain.
RecorderLoop(x) ==
    IF x.e.i + 1 < x.e.totalFrames THEN RecorderFrame(x, x.e.i + 1)
    ELSE [x EXCEPT !.e.looped = TRUE, !.e.pc = "stopping"]

\* The frame timeout of the raster loop is over; meanwhile ondataavailable
\* may have chained the write of a chunk, and that write may have failed.
AfterFrameWait(x, chunkRejected) ==
    RecorderLoop([x EXCEPT !.e.writeFailed = @ \/ chunkRejected])

\* await stopPromise and writeChain: with a writable the chunks are in the
\* file unless a write failed; without one they are a blob to save.
AfterRecorderStop(x, result) ==
    CASE x.e.writeFailed \/ result = "writeFailed" -> Fail(x, "Export failed.")
      [] result = "empty" -> Fail(x, "Export failed to render.")
      [] OTHER ->
           IF x.e.settings.picker
           THEN Finally([x EXCEPT !.e = closeAnimationExportDialog(@), !.e.saved = TRUE])
           ELSE [x EXCEPT !.e.status = "Saving...", !.e.pc = "save"]

\* What the export dialog holds when Save is pressed.
ExportInputs ==
    {[fps |-> 1, quality |-> "medium", type |-> "webm", renderer |-> "pathtracing",
      picker |-> TRUE],
     [fps |-> 30, quality |-> "medium", type |-> "mp4", renderer |-> "pathtracing",
      picker |-> FALSE],
     [fps |-> 60, quality |-> "lossless", type |-> "mp4", renderer |-> "pathtracing",
      picker |-> FALSE],
     [fps |-> 1, quality |-> "medium", type |-> "webm", renderer |-> "raster",
      picker |-> FALSE],
     [fps |-> 30, quality |-> "medium", type |-> "webm", renderer |-> "raster",
      picker |-> TRUE],
     [fps |-> 2, quality |-> "medium", type |-> "gif", renderer |-> "raster",
      picker |-> FALSE]}

\* A hold of half a second and a 1 s transition: 1.5 s in all.
TimelineHalf ==
    Saved(<< KF(Z(10), LightsA, Sel(TRUE, "v0"), R(1, 2), Z(1), NoTransitions),
             KF(Z(20), LightsA, Sel(TRUE, "v0"), Z(0), Z(0), NoTransitions) >>)

\* A single keyframe without hold: no duration.
TimelineStill ==
    Saved(<< KF(Z(10), LightsA, Sel(TRUE, "v0"), Z(0), Z(0), NoTransitions) >>)

\* A 2 s hold, then a cut to the last keyframe.
TimelineHold ==
    Saved(<< KF(Z(10), LightsA, Sel(TRUE, "v0"), Z(2), Z(0), NoTransitions),
             KF(Z(20), LightsB, Sel(TRUE, "v1"), Z(0), Z(0), NoTransitions) >>)

ExportTimelines == {NULL, TimelineStill, TimelineBlend, TimelineHalf, TimelineHold}

\* Timelines with a transition of some length are exported at up to this many
\* frames per second (the eased values stay within the integers' range);
\* timelines that only hold and cut, at any frame rate.
MaxEasedFps == 2

OnlyCuts(frames) ==
    \A k \in 1..Len(frames) : frames[k] # NULL => frames[k].transitionDuration = Z(0)

MaxExports == 1

ExportInit == \E saved \in ExportTimelines : InitWith(saved, MaxExports)

\* The handler went on to its next await or to its end.
Continued(x, op) ==
    /\ Commit(x.s)
    /\ export' = x.e
    /\ lastCall' = [op |-> op]
    /\ UNCHANGED << now, playStartMs >>

\* The Save button of the export dialog; it is disabled while an export runs.
ExportClick ==
    \E input \in ExportInputs :
       /\ export.pc \in {"idle", "done"}
       /\ input.fps <= MaxEasedFps \/ OnlyCuts(keyframes)
       /\ Step
       /\ Continued(handleAnimationExport(State, input), "handleAnimationExport")

Resumed(x, op) == Continued(x, op) /\ UNCHANGED opsLeft

Exporting == [s |-> State, e |-> export]

PickerDone ==
    \E ok \in BOOLEAN :
       /\ export.pc = "picker"
       /\ Resumed(AfterPicker(Exporting, ok), "export:picker")

StartDone ==
    \E result \in {"ok", "notOk", "noSession", "throws"} :
       /\ export.pc = "start"
       /\ Resumed(AfterStart(Exporting, result), "export:start")

RenderDone ==
    \E result \in {"blob", "null", "throws"} :
       /\ export.pc = "render"
       /\ Resumed(AfterRender(Exporting, result), "export:render")

UploadDone ==
    \E result \in {"ok", "notOk", "throws"} :
       /\ export.pc = "upload"
       /\ Resumed(AfterUpload([Exporting EXCEPT !.e.responses = Append(@, result)], result),
                  "export:upload")

FinishDone ==
    \E result \in {"ok", "notOk", "empty", "throws"} :
       /\ export.pc = "finish"
       /\ Resumed(AfterFinish(Exporting, result), "export:finish")

SaveDone ==
    \E ok \in BOOLEAN :
       /\ export.pc = "save"
       /\ Resumed(AfterSave(Exporting, ok), "export:save")

RecorderPickerDone ==
    \E ok \in BOOLEAN :
       /\ export.pc = "recorderPicker"
       /\ Resumed(AfterRecorderPicker(Exporting, ok), "export:recorderPicker")

FrameWaitDone ==
    \E chunkRejected \in BOOLEAN :
       /\ export.pc = "wait"
       /\ chunkRejected => export.settings.picker
       /\ Resumed(AfterFrameWait(Exporting, chunkRejected), "export:frameWait")

RecorderStopDone ==
    \E result \in {"ok", "writeFailed", "empty"} :
       /\ export.pc = "stopping"
       /\ result = "writeFailed" => export.settings.picker
       /\ result = "empty" => ~export.settings.picker
       /\ Resumed(AfterRecorderStop(Exporting, result), "export:recorderStop")

ExportNext ==
    \/ ExportClick
    \/ PickerDone
    \/ StartDone
    \/ RenderDone
    \/ UploadDone
    \/ FinishDone
    \/ SaveDone
    \/ RecorderPickerDone
    \/ FrameWaitDone
    \/ RecorderStopDone

ExportSpec == ExportInit /\ [][ExportNext]_vars

(***************************************************************************)
(* Unattended live playback: after the start the browser keeps delivering  *)
(* animation frames and nobody touches the page.                           *)
(***************************************************************************)
LiveTimelines == SampleTimelines \cup {TimelineStill}

\* Selections and presses of the play buttons.
MaxLiveOps == 2

\* No playback of a timeline of LiveTimelines takes this long.
LongestPlaybackMs == 8000

\* The clock the frames are stamped with stops here; it only runs while a
\* playback is on.
MaxClockMs == MaxLiveOps * LongestPlaybackMs

LiveInit == \E saved \in LiveTimelines : InitWith(saved, MaxLiveOps)

\* The play button while nothing plays: startPlayback().
Play ==
    /\ ~isPlaying
    /\ Step
    /\ Commit(startPlayback(State, FALSE, Z(now)))
    /\ playStartMs' = now
    /\ lastCall' = [op |-> "startPlayback"]
    /\ UNCHANGED << now, export >>

\* Milliseconds between two animation frames of an unattended playback.
FrameDeltas == {500, 1000}

\* The browser delivers the animation frame playbackRaf stands for.
Frame ==
    \E delta \in FrameDeltas :
       /\ now + delta <= MaxClockMs
       /\ TickAt(delta, TRUE)
       /\ UNCHANGED opsLeft

LiveNext ==
    \/ SelectKeyframe
    \/ Play
    \/ PlayFromStart
    \/ Frame

\* A pending animation frame is delivered.  Frame is the only step that
\* advances the clock, and it can be taken exactly when FrameDue can.
FrameDue ==
    /\ rafPending > 0
    /\ playbackRaf = "pending"
    /\ now' \in {now + d : d \in {e \in FrameDeltas : now + e <= MaxClockMs}}

\* The browser keeps delivering the frames that were asked for.
LiveSpec == LiveInit /\ [][LiveNext]_vars /\ WF_now(FrameDue)

(***************************************************************************)
(* Playback controls: the play buttons are pressed while frames arrive     *)
(* and while the editor removes keyframes.                                 *)
(***************************************************************************)
MaxControlOps == 5

ControlInit == \E saved \in SampleTimelines : InitWith(saved, MaxControlOps)

ControlNext ==
    \/ Play
    \/ PlayFromStart
    \/ StopPlayback
    \/ Tick
    \/ OpenEditor
    \/ RemoveActiveKeyframe
    \/ CloseEditor

ControlSpec == ControlInit /\ [][ControlNext]_vars

(***************************************************************************)
(* The transition menu of the active keyframe: a kind is chosen for a row, *)
(* and the handles of its curve are dragged.                               *)
(***************************************************************************)
\* Where the pointer is, in the unit square of the curve.
PointerXs == {Z(0), R(1, 4), R(1, 2), Z(1)}

PointerYs == {Z(0), R(1, 2), Z(1)}

StepTypes == {"start", "middle", "end"}

\* The curve ignores the pointer while its row shows a step kind.
CurveDrag ==
    \E key \in getChangedItems(State, activeKeyframeIndex),
       px \in PointerXs, py \in PointerYs :
       /\ getTransitionEntry(ArrayGet(keyframes, activeKeyframeIndex), key).type
             \notin StepTypes
       /\ Ran(onPointer(State, key, px, py), [op |-> "curveDrag", key |-> key])

MaxCurveOps == 4

CurveInit == InitWith(TimelineBlend, MaxCurveOps)

CurveNext ==
    \/ SelectKeyframe
    \/ TransitionSelect
    \/ CurveDrag

CurveSpec == CurveInit /\ [][CurveNext]_vars

(***************************************************************************)
(* The active index: keyframes are selected by any number, moved, removed  *)
(* and added, also while playback runs.                                    *)
(***************************************************************************)
SelectInputs == {Z(-1), Z(0), R(1, 2), Z(1), Z(2), Z(3)}

SelectNumber ==
    \E index \in SelectInputs :
       /\ opsLeft > 0
       /\ Ran(selectKeyframeNumber(State, index),
              [op |-> "selectKeyframe", index |-> index])

MaxIndexOps == 4

IndexInit == InitWith(TimelineBlend, MaxIndexOps)

IndexNext ==
    \/ SelectNumber
    \/ ClearSelection
    \/ MoveActiveKeyframe
    \/ RemoveActiveKeyframe
    \/ AddKeyframe
    \/ Play
    \/ Tick

IndexSpec == IndexInit /\ [][IndexNext]_vars

(***************************************************************************)
(* An export started from a page in use: a keyframe may be selected and    *)
(* live playback may run when Save is pressed.  The export hides the       *)
(* panels, so the user starts nothing while it runs; animation frames of a *)
(* playback that was running keep arriving between the handler's awaits.   *)
(***************************************************************************)
MaxRestoreOps == 3

RestoreInit == \E saved \in {TimelineBlend, TimelineHold} : InitWith(saved, MaxRestoreOps)

PanelsShown == export.pc \in {"idle", "done"}

RestoreNext ==
    \/ PanelsShown /\ SelectKeyframe
    \/ PanelsShown /\ Play
    \/ Tick
    \/ ExportClick
    \/ PickerDone
    \/ StartDone
    \/ RenderDone
    \/ UploadDone
    \/ FinishDone
    \/ SaveDone
    \/ RecorderPickerDone
    \/ FrameWaitDone
    \/ RecorderStopDone

RestoreSpec == RestoreInit /\ [][RestoreNext]_vars

(***************************************************************************)
(* The easing evaluator on its own: evaluateTransition is called on the    *)
(* stored keyframes with chosen raw progress, between samples of the       *)
(* timeline.                                                               *)
(***************************************************************************)
\* Control points with a steep start, points given as bare y values, points
\* out of range or without coordinates, and a list that is too short.
CurveSteep ==
    [points |-> << Pt(0, 1, 0, 1), Pt(1, 4, 1, 1), Pt(1, 2, 1, 1),
                   Pt(3, 4, 1, 1), Pt(1, 1, 1, 1) >>]
CurveNumbers == [points |-> << Z(0), R(1, 2), Z(2), R(1, 2), Z(1) >>]
CurveOutOfRange ==
    [points |-> << Pt(1, 2, -1, 1), Pt(3, 4, 1, 2), [x |-> NULL, y |-> NULL],
                   Pt(1, 4, 3, 2), [x |-> Z(2), y |-> NULL] >>]
CurveShort == [points |-> << Pt(0, 1, 0, 1), Pt(1, 1, 1, 1) >>]

\* What transitions[key] of a stored keyframe may hold.
TransitionSpecs ==
    {NULL, [text |-> "s-curve"], [text |-> "middle"],
     [type |-> "", curve |-> NULL], [type |-> "bogus", curve |-> NULL],
     [type |-> "start", curve |-> getPresetCurve("start")],
     [type |-> "middle", curve |-> NULL],
     [type |-> "end", curve |-> CurveSteep],
     [type |-> "linear", curve |-> CurveSteep],
     [type |-> "s-curve", curve |-> CurveNumbers],
     [type |-> "linear", curve |-> CurveOutOfRange],
     [type |-> "s-curve", curve |-> CurveShort]}

RawProgresses == {R(-1, 2), Z(0), R(1, 4), R(1, 2), R(3, 4), Z(1), R(3, 2)}

\* Two keyframes, a 2 s transition whose camera easing is the entry.
EvalTimeline(entry) ==
    Saved(<< KF(Z(10), LightsA, Sel(TRUE, "v0"), Z(0), Z(2),
                [NoTransitions EXCEPT !["camera"] = entry]),
             KF(Z(20), LightsB, Sel(TRUE, "v1"), Z(0), Z(0), NoTransitions) >>)

MaxEvalOps == 3

EvalInit == \E entry \in TransitionSpecs : InitWith(EvalTimeline(entry), MaxEvalOps)

\* lastCall keeps the first evaluation made since the page was loaded, once
\* there is one, and whether the timeline was sampled since.
Evaluated == "first" \in DOMAIN lastCall

\* A call that lets the curve of the stored entry take its normalised points.
EvaluateInPlace(s, index, key, t) ==
    LET frame == normalizeKeyframe(s, ArrayGet(s.keyframes, index))
        entry == getTransitionEntry(frame, key)
        stored == frame.transitions[key]
    IN  [s |-> IF entry.curve = NULL THEN s
               ELSE [s EXCEPT !.keyframes = ArraySet(@, index,
                       [frame EXCEPT !.transitions[key] =
                          [stored EXCEPT !.curve.points =
                             normalizeCurvePoints(entry.curve, entry.type)]])],
         value |-> evaluateTransition(frame, key, t)]

\* evaluateTransition(frame, key, t) on the normalised keyframe of an index:
\* the state it leaves and the value it returns.
EvaluateIn(s, index, key, t) ==
    [s |-> s,
     value |-> evaluateTransition(normalizeKeyframe(s, ArrayGet(s.keyframes, index)),
                                  key, t)]

\* What a call evaluateTransition(keyframes[index], key, t) is remembered as.
EvaluationOf(s, index, key, t) ==
    [entry |-> normalizeKeyframe(s, ArrayGet(s.keyframes, index)).transitions[key],
     t |-> t, value |-> EvaluateIn(s, index, key, t).value]

\* The first keyframe's camera easing is evaluated at a raw progress.
Evaluate ==
    \E t \in RawProgresses :
       LET call == EvaluationOf(State, 0, "camera", t)
       IN  /\ Step
           /\ Commit(EvaluateIn(State, 0, "camera", t).s)
           /\ lastCall' = [op |-> "evaluateTransition", entry |-> call.entry, t |-> t,
                           value |-> call.value,
                           first |-> IF Evaluated THEN lastCall.first ELSE call,
                           between |-> Evaluated /\ lastCall.between]
           /\ UNCHANGED << now, playStartMs, export >>

\* The timeline is sampled between two evaluations.
SampleBetween ==
    \E timeMs \in {Z(500), Z(2000)} :
       /\ Step
       /\ Commit(applyAtTime(State, timeMs))
       /\ lastCall' = IF Evaluated
                      THEN [op |-> "applyAtTime", timeMs |-> timeMs,
                            first |-> lastCall.first, between |-> TRUE]
                      ELSE [op |-> "applyAtTime", timeMs |-> timeMs]
       /\ UNCHANGED << now, playStartMs, export >>

EvalNext ==
    \/ Evaluate
    \/ SampleBetween

EvalSpec == EvalInit /\ [][EvalNext]_vars

(***************************************************************************)
(* The light blend on its own: applyLightStateInterpolated is called with  *)
(* chosen snapshots and progress on whatever light list is active, and the *)
(* user adds and removes lights in between.                                *)
(***************************************************************************)
LightEntry(type, intensity) ==
    [type |-> type, color |-> White, intensity |-> intensity,
     offset |-> Z(10), targetOffset |-> Z(0),
     distance |-> IF type = "spot" THEN Z(0) ELSE NULL,
     angle |-> IF type = "spot" THEN R(1, 2) ELSE NULL,
     penumbra |-> IF type = "spot" THEN Z(0) ELSE NULL,
     decay |-> IF type = "spot" THEN Z(2) ELSE NULL]

Snapshot(color, entries) ==
    [ambient |-> [color |-> color, intensity |-> Z(1)], directional |-> entries]

\* Snapshots with no (a keyframe without lights), one, two and three lights.
ListSnapshots ==
    {NULL,
     Snapshot(White, << LightEntry("directional", R(3, 2)) >>),
     Snapshot(White, << LightEntry("spot", Z(2)), LightEntry("directional", R(1, 2)) >>),
     Snapshot(White, << LightEntry("directional", R(3, 2)), LightEntry("directional", R(1, 2)),
                        LightEntry("spot", Z(2)) >>)}

BlendProgresses == {Z(0), R(1, 4), R(1, 2), Z(1)}

\* Hues on both sides of the 0/1 boundary: 0, 10, 90, 180, 270, 350 and 360
\* degrees.
Hues == {Z(0), R(1, 36), R(1, 4), R(1, 2), R(3, 4), R(35, 36), Z(1)}

\* A snapshot whose ambient colour is saturated with the given hue.
HueSnapshot(h) ==
    Snapshot([h |-> h, s |-> Z(1), l |-> R(1, 2)], << LightEntry("directional", R(3, 2)) >>)

MaxLightOps == 3
MaxLights == 3

LightInit == InitWith(NULL, MaxLightOps)

\* lightSystem.setStructureEditable(isEditable)
setStructureEditable(s, isEditable) == [s EXCEPT !.allowStructureEdit = isEditable]

\* The click handler of the "add light" button.
addLightClick(s) ==
    IF ~s.allowStructureEdit THEN s
    ELSE [s EXCEPT !.lightSystem.lights =
            Append(@, addDirectionalLight(
               [type |-> "directional", color |-> White, intensity |-> Z(1),
                offset |-> Z(10), targetOffset |-> Z(0), distance |-> NULL,
                angle |-> NULL, penumbra |-> NULL, decay |-> NULL]))]

\* The click handler of the "remove light" button; index is the selected light.
removeLightClick(s, index) ==
    IF ~s.allowStructureEdit \/ Len(s.lightSystem.lights) <= 1 THEN s
    ELSE [s EXCEPT !.lightSystem.lights = removeDirectionalLight(@, index)]

\* The "add light" button.
AddLight ==
    /\ Len(lightSystem.lights) < MaxLights
    /\ Ran(addLightClick(State), [op |-> "addDirectionalLight"])

\* The "remove light" button, on the light that is selected.
RemoveLight ==
    \E index \in 0..(Len(lightSystem.lights) - 1) :
       /\ Len(lightSystem.lights) > 1
       /\ Ran(removeLightClick(State, index),
              [op |-> "removeDirectionalLight", index |-> index])

\* applyLightStateInterpolated(start, end, t) on the active lights.
BlendIn(s, start, end, t) ==
    [s EXCEPT !.lightSystem = applyLightStateInterpolated(@, start, end, t)]

\* The call, and the hue lerpHue returned for the ambient colour.
BlendCall(start, end, t) ==
    [op |-> "applyLightStateInterpolated", start |-> start, end |-> end, t |-> t,
     hue |-> lerpHue(normalizeLightState(start).ambient.color.h,
                     normalizeLightState(end).ambient.color.h, t)]

\* A blend between snapshots that differ in their lights.
BlendLists ==
    \E start \in ListSnapshots, end \in ListSnapshots, t \in BlendProgresses :
       Ran(BlendIn(State, start, end, t), BlendCall(start, end, t))

\* A blend between snapshots that differ in the hue of the ambient colour.
BlendHues ==
    \E a \in Hues, b \in Hues, t \in BlendProgresses :
       Ran(BlendIn(State, HueSnapshot(a), HueSnapshot(b), t),
           BlendCall(HueSnapshot(a), HueSnapshot(b), t))

LightNext ==
    \/ AddLight
    \/ RemoveLight
    \/ BlendLists
    \/ BlendHues

LightSpec == LightInit /\ [][LightNext]_vars

(***************************************************************************)
(* The model-visibility blend on its own: applyModelTransition is called   *)
(* with chosen snapshots and progress, inside and outside a playback       *)
(* segment, while the user ticks and unticks the model's checkbox.         *)
(***************************************************************************)
VisibilityProgresses == {Z(0), R(1, 4), R(1, 2), Z(1)}

\* The keyframe whose "models" easing the blend evaluates.
ModelEasings == {NULL, Easing("s-curve")}
EasedFrame(entry) == [transitions |-> [NoTransitions EXCEPT !["models"] = entry]]

MaxVisibilityOps == 3

VisibilityInit == InitWith(TimelineBlend, MaxVisibilityOps)

BlendVisibility ==
    \E startVisible \in BOOLEAN, endVisible \in BOOLEAN, t \in VisibilityProgresses,
       entry \in ModelEasings :
       Ran(applyModelTransition(State, Sel(startVisible, "v0"), Sel(endVisible, "v0"), t,
                                EasedFrame(entry)),
           [op |-> "applyModelTransition",
            start |-> Sel(startVisible, "v0"), end |-> Sel(endVisible, "v0"), t |-> t,
            easedT |-> evaluateTransition(EasedFrame(entry), "models", t),
            inSegment |-> playbackSegment # NULL])

VisibilityNext ==
    \/ BlendVisibility
    \/ ToggleModel
    \/ PlayFromStart

VisibilitySpec == VisibilityInit /\ [][VisibilityNext]_vars

(***************************************************************************)
(* Edit sessions that are left without committing: while a keyframe is     *)
(* being edited the user picks the home camera, which is the one way out   *)
(* of an edit session besides closeEditor.                                 *)
(***************************************************************************)
\* handleCameraSelectionChange, called by the camera system after it made the
\* home camera (or a saved camera) the active one.
handleCameraSelectionChange(s) ==
    IF s.isEditing THEN exitKeyframeEditing(s, FALSE, TRUE, TRUE, TRUE, TRUE)
    ELSE IF s.activeKeyframeIndex # NoIndex THEN clearSelection(s)
    ELSE s

\* resetCameraHome: the camera goes back to the pose that frames the model
\* and onActiveCameraChange reports the selection to the keyframe system.
resetCameraHome(s) ==
    handleCameraSelectionChange(
        [s EXCEPT !.camera = applyExternalCameraState(@, DefaultCamera)])

MaxEditOps == 4

EditInit == InitWith(TimelineBlend, MaxEditOps)

CameraHome ==
    /\ Step
    /\ Commit(resetCameraHome(State))
    /\ lastCall' = [op |-> "handleCameraSelectionChange", wasEditing |-> isEditing]
    /\ UNCHANGED << now, playStartMs, export >>

EditNext ==
    \/ SelectKeyframe
    \/ OpenEditor
    \/ CameraMove
    \/ ToggleModel
    \/ CameraHome
    \/ CloseEditor

EditSpec == EditInit /\ [][EditNext]_vars

(***************************************************************************)
(* Store operations on a saved timeline: keyframes are selected, added,    *)
(* moved and removed, and edit sessions are opened and committed.          *)
(***************************************************************************)
MaxStoreOps == 6

StoreInit == \E saved \in {TimelineBlend, TimelineThree} : InitWith(saved, MaxStoreOps)

\* The move buttons; without an active keyframe they do nothing.
MoveKeyframe ==
    \E direction \in {-1, 1} :
       Ran(moveActiveKeyframe(State, direction),
           [op |-> "moveActiveKeyframe", direction |-> direction])

StoreNext ==
    \/ SelectKeyframe
    \/ AddKeyframe
    \/ MoveKeyframe
    \/ RemoveActiveKeyframe
    \/ OpenEditor
    \/ CloseEditor

StoreSpec == StoreInit /\ [][StoreNext]_vars

(***************************************************************************)
(* Loading: the page is loaded over what an earlier session, or an older   *)
(* version of the program, left in localStorage, and the store is used     *)
(* and loaded again.                                                       *)
(***************************************************************************)
\* A well-formed record, and records without camera, without light and model
\* snapshot and durations, and without camera and lights.
RecordFull == KF(Z(20), LightsB, Sel(TRUE, "v1"), Z(1), Z(0), NoTransitions)
RecordNoCamera ==
    [lights |-> LightsB, models |-> Sel(TRUE, "v1"), holdDuration |-> Z(1),
     transitionDuration |-> Z(1), transitions |-> NoTransitions]
RecordCameraOnly == [camera |-> [DefaultCamera EXCEPT !.pos = Z(20)]]
RecordModelsOnly ==
    [models |-> Sel(FALSE, "v1"), holdDuration |-> Z(1), transitionDuration |-> Z(1),
     transitions |-> NoTransitions]

StoredTexts ==
    {NULL, TimelineBlend, TimelineThree,
     Saved(<< RecordFull, NULL >>),
     Saved(<< NULL, RecordFull >>),
     Saved(<< RecordNoCamera, RecordFull >>),
     Saved(<< RecordCameraOnly, RecordFull >>),
     Saved(<< RecordModelsOnly, RecordFull >>)}

MaxLoadOps == 3

LoadInit == \E saved \in StoredTexts : InitWith(saved, MaxLoadOps)

LoadNext ==
    \/ Reload
    \/ Sample
    \/ PlayFromStart
    \/ SelectKeyframe
    \/ AddKeyframe
    \/ RemoveActiveKeyframe
    \/ HoldInput
    \/ TransitionInput

LoadSpec == LoadInit /\ [][LoadNext]_vars

\* Sessions: a saved timeline is edited, and the page is loaded again over
\* what the session saved.
MaxSessionOps == 6

SessionInit == InitWith(TimelineBlend, MaxSessionOps)

SessionNext ==
    \/ OpenEditor
    \/ RemoveActiveKeyframe
    \/ CloseEditor
    \/ TransitionInput
    \/ AddKeyframe
    \/ Reload

SessionSpec == SessionInit /\ [][SessionNext]_vars

(***************************************************************************)
(* Light structure: lights are added and removed while keyframes are       *)
(* selected and edited.                                                    *)
(***************************************************************************)
MaxStructureOps == 4

StructureInit == InitWith(TimelineBlend, MaxStructureOps)

StructureNext ==
    \/ SelectKeyframe
    \/ OpenEditor
    \/ CloseEditor
    \/ AddLight
    \/ RemoveLight

StructureSpec == StructureInit /\ [][StructureNext]_vars

(***************************************************************************)
(* Claims about the keyframe store.                                        *)
(***************************************************************************)
Stored == {k \in 1..Len(keyframes) : keyframes[k] # NULL}

\* C1: after any sequence of store operations every keyframe has
\* holdDuration >= 0 and transitionDuration >= 0, and the last keyframe's
\* transitionDuration is 0.
C1_DurationInvariant ==
    /\ \A k \in Stored :
          /\ RLe(Z(0), keyframes[k].holdDuration)
          /\ RLe(Z(0), keyframes[k].transitionDuration)
    /\ Len(keyframes) > 0 /\ keyframes[Len(keyframes)] # NULL
          => keyframes[Len(keyframes)].transitionDuration = Z(0)



(***************************************************************************)
(* Claims about sampling.                                                  *)
(***************************************************************************)
\* What is on screen: the camera, the light system, and for every model
\* whether it shows, how opaque and in which version.  A model that is
\* invisible or fully transparent shows nothing, whatever its other fields.
Visual(s) ==
    [camera |-> s.camera,
     lights |-> s.lightSystem,
     models |-> [m \in ModelIds |->
        IF getVisibility(s, m) /\ RLt(Z(0), s.opacity[m])
        THEN [shown |-> TRUE, opacity |-> s.opacity[m], version |-> s.selection.versions[m]]
        ELSE [shown |-> FALSE, opacity |-> Z(0), version |-> ""]]]

\* The system as construction leaves it, holding the keyframes of s.
Reference(s) == [Constructed(NULL) EXCEPT !.keyframes = s.keyframes]

Sampled == lastCall.op = "applyAtTime" /\ lastCall.timeMs # NULL

\* The keyframes construction loads from a saved timeline.
Loaded(saved) == Constructed(saved).keyframes

\* Start of keyframe i's hold window, end of it (the start of the transition
\* window to keyframe i + 1), and the end of that transition window, in ms.
RECURSIVE HoldStart(_)
HoldStart(i) ==
    IF i = 0 THEN Z(0)
    ELSE RAdd(HoldStart(i - 1),
              RAdd(Ms(keyframes[i].holdDuration), Ms(keyframes[i].transitionDuration)))

HoldEnd(i) == RAdd(HoldStart(i), Ms(keyframes[i + 1].holdDuration))

TransitionEnd(i) == RAdd(HoldEnd(i), Ms(keyframes[i + 1].transitionDuration))

Clamp(t, lo, hi) == RMax(lo, RMin(hi, t))

\* C2: for every T outside [0, duration], applyAtTime(T) applies the same
\* visual state as applyAtTime(clamp(T, 0, duration)).
C2_ClampEquivalence ==
    [][(/\ lastCall'.op = "applyAtTime"
        /\ lastCall'.timeMs # NULL
        /\ \/ RLt(lastCall'.timeMs, Z(0))
           \/ RLt(getAnimationDurationMs(State), lastCall'.timeMs))
       => Visual(State')
            = Visual(applyAtTime(State, Clamp(lastCall'.timeMs, Z(0),
                                              getAnimationDurationMs(State))))]_vars

\* C3: applyAtTime(T) called twice in a row with the same T leaves the same
\* applied visual state after the second call as after the first.
C3_Idempotent ==
    [][(/\ lastCall.op = "applyAtTime"
        /\ lastCall'.op = "applyAtTime"
        /\ lastCall'.timeMs = lastCall.timeMs)
       => Visual(State') = Visual(State)]_vars

\* C4: the visual state applyAtTime(T) applies depends on T and the stored
\* keyframes only, not on earlier samples, the live scene or a playback
\* segment: it is what applyAtTime(T) applies right after construction.
C4_FunctionOfTimeAndKeyframes ==
    [][lastCall'.op = "applyAtTime"
       => Visual(State') = Visual(applyAtTime(Reference(State), lastCall'.timeMs))]_vars

\* Keyframe i's stored snapshot is what is applied, nothing blended.
ExactSnapshot(i) ==
    /\ getCameraState(State) = keyframes[i + 1].camera
    /\ getLightState(lightSystem) = keyframes[i + 1].lights
    /\ getSelectionSnapshot(State) = keyframes[i + 1].models
    /\ \A m \in ModelIds : opacity[m] = Z(1)
    /\ visibilityOverrides = {}

\* C6: for every T within keyframe i's hold window (from its start to its
\* end, both included, the window being longer than a single instant),
\* applyAtTime(T) applies exactly keyframe i's stored camera, light and model
\* snapshot, every model at opacity 1 and no visibility override left.
C6_HoldSnapshot ==
    Sampled =>
      \A i \in 0..(Len(keyframes) - 1) :
         (/\ RLt(HoldStart(i), HoldEnd(i))
          /\ RLe(HoldStart(i), lastCall.timeMs)
          /\ RLe(lastCall.timeMs, HoldEnd(i)))
         => ExactSnapshot(i)

\* The evaluation the transition from keyframe i must make for one property
\* at raw progress t.
Evaluation(i, key, t) ==
    [key |-> key, t |-> t, entry |-> getTransitionEntry(keyframes[i + 1], key)]

\* C7: for every T inside the transition window between keyframes i and
\* i + 1 (after its start, up to its end), camera, lights and models are each
\* evaluated once at raw progress (T - windowStart) / transitionDuration with
\* keyframe i's transition entry, and the camera stands where that eased
\* progress puts it; with holds 0,0 and a 2 s linear transition, T = 1 s
\* gives raw progress 1/2.
C7_RawProgress ==
    /\ Sampled =>
         \A i \in 0..(Len(keyframes) - 2) :
            (RLt(HoldEnd(i), lastCall.timeMs) /\ RLe(lastCall.timeMs, TransitionEnd(i)))
            => LET t == RDiv(RSub(lastCall.timeMs, HoldEnd(i)),
                             Ms(keyframes[i + 1].transitionDuration))
               IN  /\ evalLog = << Evaluation(i, "camera", t), Evaluation(i, "lights", t),
                                   Evaluation(i, "models", t) >>
                   /\ camera.pos
                        = interpolateCameraState(
                            keyframes[i + 1].camera, keyframes[i + 2].camera,
                            evaluateTransition(keyframes[i + 1], "camera", t)).pos
    /\ (Sampled /\ lastCall.timeMs = Z(1000) /\ keyframes = Loaded(TimelineBlend))
         => evalLog[1].t = R(1, 2)

\* A sample in the middle of a transition that eases the camera with a curve
\* of its own: keyframe 0 of the three-keyframe timeline at 1.5 s.
C7_Witness ==
    /\ Sampled
    /\ keyframes = Loaded(TimelineThree)
    /\ lastCall.timeMs = Z(1500)
    /\ Len(evalLog) = 3
    /\ evalLog[1].t = R(1, 2)
    /\ evalLog[1].entry.type = "s-curve"
(***************************************************************************)
(* Claims about live playback.                                             *)
(***************************************************************************)
\* C5: the visual state live playback started from keyframe 0 applies when
\* time T has elapsed since the start equals the state applyAtTime(T)
\* applies for the same keyframe sequence.
C5_PlaybackMatchesSampling ==
    [][(lastCall'.op = "tickPlayback" /\ isPlaying)
       => Visual(State')
            = Visual(applyAtTime(Reference(State), Z(now' - playStartMs')))]_vars

(***************************************************************************)
(* Claims about animation export.                                          *)
(***************************************************************************)
\* The frame rate frames are taken at.
ExportFps ==
    IF export.settings.quality = "lossless" /\ export.settings.fps > 30 THEN 30
    ELSE export.settings.fps

ExportBegun == export.pc # "idle" /\ export.durationMs # Z(0)

FailureStatuses ==
    {"Add keyframes before exporting.", "Failed to start path tracing export.",
     "Path tracing export session failed.", "Path tracing frame failed to render.",
     "Failed to upload path tracing frame.", "Failed to encode path traced animation.",
     "Path traced animation failed to render.", "Export failed to render.",
     "GIF export is not supported in this browser. Use WebM or MP4.",
     "Export failed.", "Failed to fetch", "The user aborted a request."}

\* Success is the dialog closing after the save; failure leaves it open.
ReportedSuccess == export.pc = "done" /\ ~export.dialogOpen

Rejections == {k \in 1..Len(export.responses) : export.responses[k] # "ok"}

C10_SequentialSubmission ==
    /\ \A k \in 1..Len(export.submitted) : export.submitted[k] = k - 1
    /\ \A k \in 1..Len(export.accepted) : export.accepted[k] = k - 1
    /\ Cardinality(export.inFlight) <= 1
    /\ export.pc = "render" => export.inFlight = {}
    /\ Len(export.samples) <= Len(export.accepted) + 1
    /\ Len(export.submitted) <= Len(export.accepted) + 1

\* Frames 0 and 1 are with the sink, frame 2 is on its way.
C10_Witness ==
    /\ export.pc = "upload"
    /\ export.accepted = << 0, 1 >>
    /\ export.inFlight = {2}

(***************************************************************************)
(* Claims about the playback controller.                                   *)
(***************************************************************************)
LastIndex == Len(keyframes) - 1

StartCalls == {"startPlayback", "startPlaybackFromBeginning"}

\* C11: playback started on a non-empty sequence, with frames arriving and
\* no edits, eventually stops by itself with the last keyframe active; its
\* ticks go through the segments in increasing index order, one at a time;
\* started on the last or only keyframe it has stopped when the start returns.
C11_PlaybackCompletes ==
    /\ isPlaying ~> (~isPlaying /\ activeKeyframeIndex = LastIndex)
    /\ [][(lastCall'.op = "tickPlayback" /\ isPlaying /\ isPlaying')
            => /\ playbackSegment'.toIndex = playbackSegment'.fromIndex + 1
               /\ playbackSegment'.fromIndex
                    \in {playbackSegment.fromIndex, playbackSegment.fromIndex + 1}]_vars
    /\ [][(lastCall'.op \in StartCalls /\ playbackIndex' >= LastIndex /\ ~isPlaying)
            => (~isPlaying' /\ activeKeyframeIndex' = LastIndex)]_vars

\* Playback of three keyframes has run through both segments and stopped in
\* a tick.
C11_Witness ==
    /\ Len(keyframes) = 3
    /\ lastCall.op = "tickPlayback"
    /\ ~isPlaying
    /\ activeKeyframeIndex = 2
    /\ playbackIndex = 2

\* Time spent in the phase a segment is in.
LocalProgress(segment, atMs) == RSub(Z(atMs), segment.startTimeMs)

\* C12: startPlayback right after the play button paused playback goes on
\* from where it was paused: same segment, same phase, same local progress.
C12_ResumeInPlace ==
    [][(lastCall.op = "stopPlayback" /\ lastCall'.op = "startPlayback")
        => /\ isPlaying'
           /\ playbackSegment'.fromIndex = lastCall.segment.fromIndex
           /\ playbackSegment'.toIndex = lastCall.segment.toIndex
           /\ playbackSegment'.phase = lastCall.segment.phase
           /\ LocalProgress(playbackSegment', now')
                = LocalProgress(lastCall.segment, lastCall.atMs)]_vars

\* C13: startPlaybackFromBeginning on a non-empty sequence, playing or not
\* and whichever keyframe is active, begins at keyframe 0 at local time 0
\* and leaves the keyframe sequence as it was.
C13_RestartFromBeginning ==
    [][(lastCall'.op = "startPlaybackFromBeginning" /\ Len(keyframes) > 0)
        => /\ keyframes' = keyframes
           /\ playbackIndex' = 0
           /\ activeKeyframeIndex' = 0
           /\ IF Len(keyframes) > 1
              THEN /\ isPlaying'
                   /\ playbackSegment'.fromIndex = 0
                   /\ playbackSegment'.toIndex = 1
                   /\ LocalProgress(playbackSegment', now') = Z(0)
              ELSE ~isPlaying']_vars

\* C14: stopPlayback applies no visual state and cancels the pending tick;
\* while playback is stopped no tick is pending, and a tick that ran all the
\* same would change nothing.
C14_StopIsImmediate ==
    /\ [][lastCall'.op = "stopPlayback"
            => /\ Visual(State') = Visual(State)
               /\ ~isPlaying'
               /\ rafPending' = 0]_vars
    /\ [](~isPlaying => /\ rafPending = 0
                        /\ tickPlayback(State, Z(now)) = State)

\* Playback was stopped in the middle of a transition.
C14_Witness ==
    /\ lastCall.op = "stopPlayback"
    /\ lastCall.segment.phase = "transition"
    /\ RLt(lastCall.segment.startTimeMs, Z(now))
    /\ ~isPlaying

(***************************************************************************)
(* Claims about the easing evaluator.                                      *)
(***************************************************************************)
\* A keyframe that carries nothing but one camera transition entry.
FrameWith(entry) == [transitions |-> [NoTransitions EXCEPT !["camera"] = entry]]
KindOf(entry) == getTransitionEntry(FrameWith(entry), "camera").type
InUnit(v) == RLe(Z(0), v) /\ RLe(v, Z(1))

\* C15: the step kinds return exactly 0 or 1 for every raw progress, and for
\* r in [0, 1]: start gives 0 only at r = 0 and 1 for r > 0, middle gives 0
\* for r < 0.5 and 1 for r >= 0.5, end gives 0 for r < 1 and 1 at r = 1.
C15_StepKinds ==
    (lastCall.op = "evaluateTransition" /\ KindOf(lastCall.entry) \in {"start", "middle", "end"})
       => LET r == lastCall.t
              v == lastCall.value
              kind == KindOf(lastCall.entry)
          IN  /\ v \in {Z(0), Z(1)}
              /\ InUnit(r) =>
                    CASE kind = "start" -> (v = Z(0)) <=> (r = Z(0))
                      [] kind = "middle" -> (v = Z(0)) <=> RLt(r, R(1, 2))
                      [] kind = "end" -> (v = Z(1)) <=> (r = Z(1))

\* A middle step was evaluated at r = 0.5 and gave 1.
C15_Witness ==
    /\ lastCall.op = "evaluateTransition"
    /\ KindOf(lastCall.entry) = "middle"
    /\ lastCall.t = R(1, 2)
    /\ lastCall.value = Z(1)

\* C16: for every stored transition entry and every raw progress r the
\* evaluator returns a value in [0, 1], and the value it returns for r is the
\* value it returns for r clamped to [0, 1].
C16_UnitRange ==
    lastCall.op = "evaluateTransition"
       => /\ InUnit(lastCall.value)
          /\ lastCall.value =
                evaluateTransition(FrameWith(lastCall.entry), "camera", clamp01(lastCall.t))

\* A custom curve was evaluated at a raw progress above 1.
C16_Witness ==
    /\ lastCall.op = "evaluateTransition"
    /\ lastCall.entry # NULL
    /\ "curve" \in DOMAIN lastCall.entry
    /\ lastCall.entry.curve = CurveOutOfRange
    /\ lastCall.t = R(3, 2)
    /\ InUnit(lastCall.value)

Blended == lastCall.op = "applyLightStateInterpolated"
StartCount == Len(normalizeLightState(lastCall.start).directional)
EndCount == Len(normalizeLightState(lastCall.end).directional)

\* C18: after a blend from a snapshot with m lights to one with n lights, on
\* any prior light list, the active list has max(m, n) lights while t < 1 and
\* exactly n lights once t >= 1.
C18_LightCount ==
    Blended =>
       Len(lightSystem.lights) =
          IF RLt(lastCall.t, Z(1)) THEN Max(StartCount, EndCount) ELSE EndCount

\* C19: a light only the end snapshot has is at intensity 0 at t = 0 and at
\* its end intensity at t = 1; a light only the start snapshot has is at its
\* start intensity at t = 0 and is gone from the active list at t = 1.
C19_FadeInAndOut ==
    Blended =>
       /\ \A i \in (StartCount + 1)..EndCount :
             /\ lastCall.t = Z(0) => lightSystem.lights[i].intensity = Z(0)
             /\ lastCall.t = Z(1) =>
                   lightSystem.lights[i].intensity = lastCall.end.directional[i].intensity
       /\ \A i \in (EndCount + 1)..StartCount :
             /\ lastCall.t = Z(0) =>
                   lightSystem.lights[i].intensity = lastCall.start.directional[i].intensity
             /\ lastCall.t = Z(1) => Len(lightSystem.lights) < i

\* The hues lerpHue was given for the ambient colour, and the distance of two
\* hues around the colour circle.
StartHue == normalizeLightState(lastCall.start).ambient.color.h
EndHue == normalizeLightState(lastCall.end).ambient.color.h
HueDistance(x, y) == RMin(RAbs(RSub(x, y)), RSub(Z(1), RAbs(RSub(x, y))))

\* C20: for hues a, b and progress t in [0, 1], lerpHue returns a hue in
\* [0, 1] on the shorter arc from a to b (it has travelled t of the distance
\* from a and has 1 - t of it left to b, across the 0/1 boundary where that is
\* shorter), a at t = 0 and b modulo 1 at t = 1; 350 and 10 degrees at
\* t = 0.5 blend to 0 degrees (or 360), not to 180.
C20_ShorterArc ==
    Blended =>
       /\ InUnit(lastCall.hue)
       /\ HueDistance(StartHue, lastCall.hue) = RMul(HueDistance(StartHue, EndHue), lastCall.t)
       /\ HueDistance(lastCall.hue, EndHue) =
             RMul(HueDistance(StartHue, EndHue), RSub(Z(1), lastCall.t))
       /\ RLe(RMul(HueDistance(StartHue, EndHue), lastCall.t), R(1, 2))
       /\ lastCall.t = Z(0) => lastCall.hue = StartHue
       /\ lastCall.t = Z(1) => Frac(lastCall.hue) = Frac(EndHue)
       /\ (StartHue = R(350, 360) /\ EndHue = R(10, 360) /\ lastCall.t = R(1, 2))
             => Frac(lastCall.hue) = Z(0)

\* 350 and 10 degrees were blended half way, across the 0/1 boundary.
C20_Witness ==
    /\ Blended
    /\ StartHue = R(350, 360)
    /\ EndHue = R(10, 360)
    /\ lastCall.t = R(1, 2)
    /\ lastCall.hue \in {Z(0), Z(1)}

(***************************************************************************)
(* Claims about the model-visibility blend.                                *)
(***************************************************************************)
\* What the viewer shows of a model: its opacity while its group is visible,
\* nothing otherwise.
ShownOpacity(m) == IF getVisibility(State, m) THEN opacity[m] ELSE Z(0)

\* C21: after the model-visibility blend at eased progress t, a model
\* visible in both snapshots is shown at opacity 1, one invisible in both is
\* not shown, one visible only in the end snapshot is shown at opacity t and
\* one visible only in the start snapshot at opacity 1 - t, whatever model
\* selection was live before the call.
C21_VisibilityBlend ==
    lastCall.op = "applyModelTransition" =>
       \A m \in ModelIds :
          ShownOpacity(m) =
             CASE lastCall.start.models[m] /\ lastCall.end.models[m] -> Z(1)
               [] ~lastCall.start.models[m] /\ ~lastCall.end.models[m] -> Z(0)
               [] ~lastCall.start.models[m] /\ lastCall.end.models[m] -> lastCall.easedT
               [] lastCall.start.models[m] /\ ~lastCall.end.models[m] ->
                     RSub(Z(1), lastCall.easedT)

\* C22: in the segment from keyframe i to keyframe i + 1, sampled by
\* applyAtTime inside its transition window, the model selection is the start
\* keyframe's snapshot (visibility and versions) while t < 1 and the end
\* keyframe's snapshot once t >= 1, and once t >= 1 has been applied no
\* visibility override and no model opacity below 1 remains.
C22_SnapshotsApplied ==
    Sampled =>
      \A i \in 0..(Len(keyframes) - 2) :
         (RLt(HoldEnd(i), lastCall.timeMs) /\ RLe(lastCall.timeMs, TransitionEnd(i)))
         => IF RLt(lastCall.timeMs, TransitionEnd(i))
            THEN getSelectionSnapshot(State) = keyframes[i + 1].models
            ELSE /\ getSelectionSnapshot(State) = keyframes[i + 2].models
                 /\ visibilityOverrides = {}
                 /\ \A m \in ModelIds : opacity[m] = Z(1)

(***************************************************************************)
(* Claims about edit sessions and the store operations.                    *)
(***************************************************************************)
\* C23: whatever store operations ran since openEditor, committing the edit
\* (closeEditor) keeps the length of the sequence, writes the live camera,
\* light and model state into the keyframe under edit, keeps that keyframe's
\* durations and transitions, and changes no other keyframe.
C23_CommitWritesEdited ==
    [][lastCall'.op = "closeEditor" =>
         /\ Len(keyframes') = Len(keyframes)
         /\ \A k \in 1..Len(keyframes) :
               IF k = editingIndex + 1
               THEN /\ keyframes[k] # NULL
                    /\ keyframes'[k].camera = getCameraState(State)
                    /\ keyframes'[k].lights = getLightState(lightSystem)
                    /\ keyframes'[k].models = getSelectionSnapshot(State)
                    /\ keyframes'[k].holdDuration = keyframes[k].holdDuration
                    /\ keyframes'[k].transitionDuration = keyframes[k].transitionDuration
                    /\ keyframes'[k].transitions = keyframes[k].transitions
               ELSE keyframes'[k] = keyframes[k]]_vars

\* C24: leaving an edit session without committing restores the camera, the
\* lights and the model selection that were snapshotted when the session was
\* entered, and leaves the stored keyframes as they are.
C24_CancelRestores ==
    [][(lastCall'.op = "handleCameraSelectionChange" /\ isEditing) =>
         /\ keyframes' = keyframes
         /\ camera' = prevCameraState
         /\ getLightState(lightSystem') = prevLightState
         /\ globalModelSelectionBeforeKeyframe # NULL
               => selection' = globalModelSelectionBeforeKeyframe
         /\ ~isEditing']_vars

\* C25: when removeActiveKeyframe removes the last keyframe of a sequence of
\* at least two, the keyframe that is last afterwards has transitionDuration
\* 0, whatever it had before.
C25_RemoveLast ==
    [][(/\ lastCall'.op = "removeActiveKeyframe"
        /\ Len(keyframes) >= 2
        /\ activeKeyframeIndex = Len(keyframes) - 1)
       => /\ Len(keyframes') = Len(keyframes) - 1
          /\ keyframes'[Len(keyframes')] # NULL
          /\ keyframes'[Len(keyframes')].transitionDuration = Z(0)]_vars

\* C26: addKeyframe appends exactly one keyframe, which holds the current
\* camera, light and model state, holdDuration 1, transitionDuration 0 and no
\* transition entries; the new keyframe is the active one and every keyframe
\* that existed is as it was.
C26_AddAppends ==
    [][lastCall'.op = "addKeyframe" =>
         /\ Len(keyframes') = Len(keyframes) + 1
         /\ keyframes'[Len(keyframes')] =
               [camera |-> getCameraState(State),
                lights |-> getLightState(lightSystem),
                models |-> getSelectionSnapshot(State),
                holdDuration |-> Z(1), transitionDuration |-> Z(0),
                transitions |-> NoTransitions]
         /\ activeKeyframeIndex' = Len(keyframes)
         /\ \A k \in 1..Len(keyframes) : keyframes'[k] = keyframes[k]]_vars

\* A keyframe was added behind an existing one and is the active, last one.
C26_Witness ==
    /\ lastCall.op = "addKeyframe"
    /\ Len(keyframes) >= 2
    /\ keyframes[1] # NULL
    /\ activeKeyframeIndex = Len(keyframes) - 1
    /\ keyframes[Len(keyframes)].transitionDuration = Z(0)

\* Where the entry at place k (from 1) comes from when the entries at the
\* 0-based indices a and b change places.
Exchanged(k, a, b) == IF k = a + 1 THEN b + 1 ELSE IF k = b + 1 THEN a + 1 ELSE k

\* An entry with transitionDuration forced to 0 when it is at the last place.
AsPlaced(frame, last) ==
    IF frame # NULL /\ last THEN [frame EXCEPT !.transitionDuration = Z(0)] ELSE frame

\* C27: moveActiveKeyframe(+1 or -1) exchanges the active keyframe with its
\* neighbour in that direction and the active index follows it; every other
\* entry keeps its place and no field of any keyframe changes, except that
\* the keyframe now last has transitionDuration 0; past either end, or with
\* no active keyframe, the move changes nothing.
C27_MoveExchanges ==
    [][lastCall'.op = "moveActiveKeyframe" =>
         LET a == activeKeyframeIndex
             b == a + lastCall'.direction
         IN  IF a = NoIndex \/ b < 0 \/ b >= Len(keyframes)
             THEN State' = State
             ELSE /\ Len(keyframes') = Len(keyframes)
                  /\ activeKeyframeIndex' = b
                  /\ \A k \in 1..Len(keyframes) :
                        keyframes'[k] =
                           AsPlaced(keyframes[Exchanged(k, a, b)], k = Len(keyframes))]_vars

(***************************************************************************)
(* Claims about loading and saving.                                        *)
(***************************************************************************)
LoadedStore == lastCall.op = "createKeyframeSystem" /\ storage # NULL

\* C28: loading keeps one keyframe per stored record, malformed or not (a
\* null entry included); a record's camera, light and model snapshot are
\* kept, and a snapshot the record lacks is the live camera, light or model
\* state at load time.
C28_LoadRepairs ==
    LoadedStore =>
       /\ Len(keyframes) = Len(storage.keyframes)
       /\ \A k \in 1..Len(keyframes) :
             LET raw == storage.keyframes[k]
             IN  /\ keyframes[k].camera =
                       IF Field(raw, "camera") # NULL THEN raw.camera
                       ELSE IF IsCameraRecord(raw) THEN raw
                       ELSE getCameraState(State)
                 /\ keyframes[k].lights =
                       OrElse(Field(raw, "lights"), getLightState(lightSystem))
                 /\ keyframes[k].models =
                       OrElse(Field(raw, "models"), getSelectionSnapshot(State))

\* Every keyframe holds for no negative time and takes no negative time to
\* the next one, and the last keyframe has no transition.
DurationInvariants(frames) ==
    \A k \in 1..Len(frames) :
       frames[k] # NULL =>
          /\ RLe(Z(0), frames[k].holdDuration)
          /\ RLe(Z(0), frames[k].transitionDuration)
          /\ k = Len(frames) => frames[k].transitionDuration = Z(0)

\* The page is loaded over exactly what saveKeyframes writes for the store.
LoadsWhatWasSaved ==
    /\ lastCall'.op = "createKeyframeSystem"
    /\ storage = saveKeyframes(State).storage
    /\ DurationInvariants(keyframes)

\* C29: a sequence that satisfies the duration invariants, saved and loaded
\* by a new session, is the saved sequence, record by record and in order,
\* and no keyframe of it is selected.
C29_RoundTrip ==
    [][LoadsWhatWasSaved =>
          keyframes' = keyframes /\ activeKeyframeIndex' = NoIndex]_vars

(***************************************************************************)
(* Claims about sampling any stored sequence.                              *)
(***************************************************************************)
\* What is shown: camera, lights, model selection, opacities and overrides.
Shown == << camera, lightSystem, selection, opacity, visibilityOverrides >>

\* C30: applyAtTime ends in no exception, whatever the instant (negative,
\* beyond the duration, no finite number) and whatever the stored sequence;
\* on an empty sequence applyAtTime and startPlayback apply no visual state
\* and playback does not start.
C30_SamplingNeverRaises ==
    [][/\ lastCall'.op = "applyAtTime" => ~threw'
       /\ /\ Len(keyframes) = 0
          /\ lastCall'.op \in {"applyAtTime", "startPlaybackFromBeginning"}
          => /\ UNCHANGED Shown
             /\ ~isPlaying'
             /\ playbackSegment' = playbackSegment]_vars

(***************************************************************************)
(* Claims about the structure of the light list.                           *)
(***************************************************************************)
LightClicked == lastCall'.op \in {"addDirectionalLight", "removeDirectionalLight"}

\* C31: an add-light or remove-light click changes the light list only while
\* allowStructureEdit is set; the flag is cleared whenever the keyframe being
\* edited is not keyframe 0; while it is cleared the clicks leave the list
\* as it is.
C31_StructureEdit ==
    [][/\ LightClicked /\ lightSystem'.lights # lightSystem.lights => allowStructureEdit
       /\ isEditing' /\ editingIndex' # 0 => ~allowStructureEdit'
       /\ LightClicked /\ ~allowStructureEdit
             => lightSystem'.lights = lightSystem.lights]_vars

(***************************************************************************)
(* Claims about curve control points.                                      *)
(***************************************************************************)
\* The control points evaluateTransition works on for a stored entry, and
\* the polyline it smooths them into.
UsedPoints(entry) ==
    LET e == getTransitionEntry(FrameWith(entry), "camera")
    IN  normalizeCurvePoints(IF e.curve # NULL THEN e.curve ELSE getPresetCurve(e.type),
                             e.type)

SmoothedPoints(entry) == smoothCurvePoints(UsedPoints(entry), SmoothIterations)

\* C32: the control points used for a stored entry are five points with
\* x0 = 0, x2 = 0.5, x4 = 1, 0 <= x1 <= 0.5 <= x3 <= 1 and every y in [0, 1];
\* a curve that has not exactly five points is replaced by the preset of its
\* kind; the polyline of three subdivision rounds keeps the first and the
\* last point and its x never decreases.
C32_CurveClamped ==
    lastCall.op = "evaluateTransition"
       => LET e == getTransitionEntry(FrameWith(lastCall.entry), "camera")
              used == UsedPoints(lastCall.entry)
              smooth == SmoothedPoints(lastCall.entry)
          IN  /\ Len(used) = 5
              /\ used[1].x = Z(0) /\ used[3].x = R(1, 2) /\ used[5].x = Z(1)
              /\ RLe(Z(0), used[2].x) /\ RLe(used[2].x, R(1, 2))
              /\ RLe(R(1, 2), used[4].x) /\ RLe(used[4].x, Z(1))
              /\ \A i \in 1..5 : InUnit(used[i].y)
              /\ (e.curve # NULL /\ Len(e.curve.points) # 5)
                    => used = getPresetCurve(e.type).points
              /\ smooth[1] = used[1]
              /\ smooth[Len(smooth)] = used[5]
              /\ \A i \in 1..(Len(smooth) - 1) : RLe(smooth[i].x, smooth[i + 1].x)

\* A curve whose points are out of range and out of order was evaluated, and
\* its second and fourth point were brought to the middle.
C32_Witness ==
    /\ lastCall.op = "evaluateTransition"
    /\ lastCall.entry # NULL
    /\ "curve" \in DOMAIN lastCall.entry
    /\ lastCall.entry.curve = CurveOutOfRange
    /\ UsedPoints(lastCall.entry)[2].x = R(1, 2)
    /\ UsedPoints(lastCall.entry)[4].x = R(1, 2)
    /\ Len(SmoothedPoints(lastCall.entry)) > 5

(***************************************************************************)
(* Claims about what playback and sampling leave alone.                    *)
(***************************************************************************)
PlaybackCalls ==
    {"applyAtTime", "startPlayback", "startPlaybackFromBeginning", "tickPlayback",
     "stopPlayback"}

\* C33: applyAtTime, startPlayback, tickPlayback and stopPlayback change no
\* stored keyframe (snapshots, durations, transitions), and the selection
\* change notifications are suppressed for as long as playback is active.
C33_PlaybackKeepsKeyframes ==
    [][/\ lastCall'.op \in PlaybackCalls => keyframes' = keyframes
       /\ isPlaying' => suppressModelSelectionSave']_vars

\* C34: when the camera selection changes to the home camera or a saved
\* camera during an edit session, handleCameraSelectionChange ends in no
\* exception, ends the edit session and clears the keyframe selection.
C34_CameraChangeEndsEdit ==
    [][(lastCall'.op = "handleCameraSelectionChange" /\ isEditing) =>
         /\ ~threw'
         /\ ~isEditing'
         /\ activeKeyframeIndex' = NoIndex]_vars

(***************************************************************************)
(* Claims about the last exported frame.                                   *)
(***************************************************************************)
\* The loop of handleAnimationExport has just sampled its last frame.
LastFrameSampled ==
    /\ export.pc \in {"render", "wait"}
    /\ export.i = export.totalFrames - 1
    /\ Len(export.samples) = export.totalFrames

\* C35: for a timeline of non-zero duration the last frame export samples
\* (at T = duration) shows the final keyframe's exact snapshot: its camera,
\* lights and model selection, every model at opacity 1, no override.
C35_LastFrameIsFinalKeyframe ==
    (LastFrameSampled /\ export.durationMs # Z(0))
       => /\ export.samples[Len(export.samples)] = export.durationMs
          /\ ExactSnapshot(Len(keyframes) - 1)

(***************************************************************************)
(* Claims about the playback segment and the scheduled tick.               *)
(***************************************************************************)
\* C36: while playback is active the playback segment names two adjacent
\* keyframes that exist: 0 <= fromIndex, toIndex = fromIndex + 1, and
\* toIndex is below the number of keyframes, whatever was removed or moved
\* since the segment began.
C36_SegmentInRange ==
    (isPlaying /\ playbackSegment # NULL)
       => /\ 0 <= playbackSegment.fromIndex
          /\ playbackSegment.toIndex = playbackSegment.fromIndex + 1
          /\ playbackSegment.toIndex < Len(keyframes)

\* The calls that run a piece of handleAnimationExport.
ExportCalls ==
    {"handleAnimationExport", "export:picker", "export:start", "export:render",
     "export:upload", "export:finish", "export:save", "export:recorderPicker",
     "export:frameWait", "export:recorderStop"}

\* The handler has just left through its finally block.
ExportLeft ==
    /\ lastCall.op \in ExportCalls
    /\ export.pc = "done"
    /\ export.before # NULL

SceneRestored ==
    /\ camera = export.before.camera
    /\ lightSystem = export.before.lightSystem
    /\ selection = export.before.selection

\* C37: whenever the export handler leaves after it has locked the page, the
\* camera, the lights and the model selection are what they were when it
\* locked the page, live playback is stopped, and the dialog's save and
\* close buttons are enabled.
C37_ExportRestores ==
    ExportLeft => (SceneRestored /\ ~isPlaying /\ ~export.buttonsDisabled)

\* An export that moved the camera has left, and playback ran when it began.
C37_Witness ==
    /\ ExportLeft
    /\ export.before.isPlaying
    /\ Len(export.samples) > 1

\* C38: at most one playback tick is scheduled at any time, and none is
\* scheduled while isPlaying is false, whatever the order of play, pause,
\* play-from-start, keyframe removals and animation frames.
C38_OneTickScheduled ==
    /\ rafPending <= 1
    /\ ~isPlaying => rafPending = 0

\* Playback runs with its tick scheduled after a keyframe was removed.
C38_Witness ==
    /\ lastCall.op = "removeActiveKeyframe"
    /\ isPlaying
    /\ rafPending = 1

(***************************************************************************)
(* Claims about edited curves and the active index.                        *)
(***************************************************************************)
\* The rows of keyframe k (1-based) that hold a linear or s-curve entry.
CurveRows(k) ==
    {key \in TransitionKeys :
       /\ keyframes[k] # NULL
       /\ keyframes[k].transitions[key] # NULL
       /\ getTransitionEntry(keyframes[k], key).type \in CurveTypes}

\* C39: every curve reached by choosing the linear or the s-curve preset and
\* dragging its handles evaluates to 0 at r = 0 and to 1 at r = 1.
C39_CurveEnds ==
    \A k \in 1..Len(keyframes) : \A key \in CurveRows(k) :
       /\ evaluateTransition(keyframes[k], key, Z(0)) = Z(0)
       /\ evaluateTransition(keyframes[k], key, Z(1)) = Z(1)

ActiveInRange ==
    \/ activeKeyframeIndex = NoIndex
    \/ 0 <= activeKeyframeIndex /\ activeKeyframeIndex < Len(keyframes)

\* selectKeyframe was called with a number that is no index of the sequence.
BadSelect ==
    /\ lastCall.op = "selectKeyframe"
    /\ "index" \in DOMAIN lastCall
    /\ \/ lastCall.index.d # 1
       \/ lastCall.index.n < 0
       \/ lastCall.index.n >= Len(keyframes)

\* C40: the active index is null or an index of the sequence; selectKeyframe
\* with a non-integer or out-of-range index changes nothing; after
\* removeActiveKeyframe the active index is the smaller of the previous
\* active index and the new length - 1, and when the sequence has become
\* empty it is null and playback is stopped.
C40_ActiveIndex ==
    [][/\ ActiveInRange'
       /\ BadSelect' => UNCHANGED storeVars
       /\ (lastCall'.op = "removeActiveKeyframe" /\ activeKeyframeIndex # NoIndex) =>
             IF Len(keyframes') = 0
             THEN activeKeyframeIndex' = NoIndex /\ ~isPlaying'
             ELSE activeKeyframeIndex' = Min(activeKeyframeIndex, Len(keyframes') - 1)]_vars

\* The last keyframe has been removed: nothing is active, nothing plays.
C40_Witness ==
    /\ lastCall.op = "removeActiveKeyframe"
    /\ Len(keyframes) = 0
    /\ activeKeyframeIndex = NoIndex
    /\ ~isPlaying

=============================================================================
